---------------------------- MODULE Spec2Model ----------------------------
(***************************************************************************)
(* Order placement, commission settlement and the order life cycle of the  *)
(* marketplace backend: OrderController (createOrder, updateOrderStatus,   *)
(* cancelOrder) and PaymentService (processPaymentSuccess,                 *)
(* processPaymentFailure, initiateRefund, handleWebhook).                  *)
(*                                                                         *)
(* Amounts are JavaScript numbers.  A number is modelled as an IEEE-754    *)
(* binary64 value m * 2^e: the record [m |-> significand, e |-> exponent], *)
(* the significand normalised to 53 bits (empty for zero).  Every          *)
(* arithmetic operator rounds to 53 significant bits, ties to even, as the *)
(* JavaScript operators do.                                                *)
(***************************************************************************)
EXTENDS Integers, Sequences, FiniteSets, TLC

(***************************************************************************)
(* Unbounded naturals: sequences of 15-bit limbs, least significant first, *)
(* without leading zero limbs.                                             *)
(***************************************************************************)
LimbBits == 15

LimbBase == 32768

Min(a, b) == IF a < b THEN a ELSE b

Max(a, b) == IF a > b THEN a ELSE b

RECURSIVE Pow2(_)
Pow2(k) == IF k = 0 THEN 1 ELSE 2 * Pow2(k - 1)

\* number of bits of a machine integer
RECURSIVE IntLen(_)
IntLen(n) == IF n = 0 THEN 0 ELSE 1 + IntLen(n \div 2)

RECURSIVE Big(_)
Big(n) == IF n = 0 THEN << >> ELSE <<n % LimbBase>> \o Big(n \div LimbBase)

RECURSIVE Trim(_)
Trim(b) ==
    IF b = << >> THEN << >>
    ELSE IF b[Len(b)] = 0 THEN Trim(SubSeq(b, 1, Len(b) - 1))
    ELSE b

Limb(a, i) == IF i <= Len(a) THEN a[i] ELSE 0

\* number of bits of a
BLen(a) ==
    IF a = << >> THEN 0 ELSE (Len(a) - 1) * LimbBits + IntLen(a[Len(a)])

\* limbs i.. of a + b, with carry c into limb i
RECURSIVE BAddC(_, _, _, _)
BAddC(a, b, i, c) ==
    IF i > Max(Len(a), Len(b)) THEN (IF c = 0 THEN << >> ELSE <<c>>)
    ELSE LET s == Limb(a, i) + Limb(b, i) + c
         IN  <<s % LimbBase>> \o BAddC(a, b, i + 1, s \div LimbBase)

BAdd(a, b) == Trim(BAddC(a, b, 1, 0))

\* limbs i.. of a - b for a >= b, with borrow c out of limb i
RECURSIVE BSubC(_, _, _, _)
BSubC(a, b, i, c) ==
    IF i > Len(a) THEN << >>
    ELSE LET d == a[i] - Limb(b, i) - c
         IN  IF d < 0 THEN <<d + LimbBase>> \o BSubC(a, b, i + 1, 1)
             ELSE <<d>> \o BSubC(a, b, i + 1, 0)

BSub(a, b) == Trim(BSubC(a, b, 1, 0))

\* -1, 0, 1 as a < b, a = b, a > b
RECURSIVE BCmpFrom(_, _, _)
BCmpFrom(a, b, i) ==
    IF i = 0 THEN 0
    ELSE IF a[i] > b[i] THEN 1
    ELSE IF a[i] < b[i] THEN -1
    ELSE BCmpFrom(a, b, i - 1)

BCmp(a, b) ==
    IF Len(a) > Len(b) THEN 1
    ELSE IF Len(a) < Len(b) THEN -1
    ELSE BCmpFrom(a, b, Len(a))

\* limbs i.. of a * n, with carry c into limb i
RECURSIVE BMulC(_, _, _, _)
BMulC(a, n, i, c) ==
    IF i > Len(a) THEN Big(c)
    ELSE LET s == a[i] * n + c
         IN  <<s % LimbBase>> \o BMulC(a, n, i + 1, s \div LimbBase)

\* a * n for a machine integer 0 <= n < LimbBase
BMulSmall(a, n) == Trim(BMulC(a, n, 1, 0))

\* long division of the limbs 1..i of a, with the remainder r of the limbs
\* above them, by a machine integer 0 < d < LimbBase:
\* <<quotient limbs 1..i, remainder>>
RECURSIVE BDivFrom(_, _, _, _)
BDivFrom(a, d, i, r) ==
    IF i = 0 THEN << << >>, r >>
    ELSE LET x == r * LimbBase + a[i]
             low == BDivFrom(a, d, i - 1, x % d)
         IN  << low[1] \o <<x \div d>>, low[2] >>

BDivSmall(a, d) ==
    LET qr == BDivFrom(a, d, Len(a), 0) IN <<Trim(qr[1]), qr[2]>>

\* a * 2^k
BShl(a, k) ==
    IF a = << >> \/ k <= 0 THEN a
    ELSE [i \in 1..(k \div LimbBits) |-> 0] \o BMulSmall(a, Pow2(k % LimbBits))

\* floor(a / 2^k)
BShr(a, k) ==
    IF k <= 0 THEN a
    ELSE BDivSmall(SubSeq(a, (k \div LimbBits) + 1, Len(a)), Pow2(k % LimbBits))[1]

\* a is a multiple of 2^k
BLowZero(a, k) ==
    /\ \A i \in 1..Min(k \div LimbBits, Len(a)) : a[i] = 0
    /\ Limb(a, (k \div LimbBits) + 1) % Pow2(k % LimbBits) = 0

BOdd(a) == a # << >> /\ a[1] % 2 = 1

(***************************************************************************)
(* binary64 numbers.                                                       *)
(***************************************************************************)
\* significand width of a JavaScript number
Precision == 53

FlZero == [m |-> << >>, e |-> 0]

\* n * 2^e for n # 0 of len bits
NormLen(n, e, len) ==
    IF len > Precision THEN [m |-> BShr(n, 1), e |-> e + 1]
    ELSE [m |-> BShl(n, Precision - len), e |-> e - (Precision - len)]

\* n * 2^e for n of at most Precision bits, or n = 2^Precision
Norm(n, e) == IF n = << >> THEN FlZero ELSE NormLen(n, e, BLen(n))

\* kept * 2^e rounded up when the bits dropped below kept are more than half
\* a unit, or half a unit and kept is odd
RoundKept(kept, half, sticky, e) ==
    Norm(IF half /\ (sticky \/ BOdd(kept)) THEN BAdd(kept, <<1>>) ELSE kept, e)

\* n * 2^e with the low k bits of n rounded off, ties to even
RoundOff(n, e, k) ==
    RoundKept(BShr(n, k), BOdd(BShr(n, k - 1)), ~BLowZero(n, k - 1), e + k)

\* n * 2^e for n of len bits, rounded to Precision bits
RoundLen(n, e, len) ==
    IF len <= Precision THEN Norm(n, e) ELSE RoundOff(n, e, len - Precision)

\* the binary64 value nearest to n * 2^e, ties to even
FlRound(n, e) == RoundLen(n, e, BLen(n))

FlFromInt(n) == Norm(Big(n), 0)

\* the significand of x at exponent e <= x.e
Aligned(x, e) == BShl(x.m, x.e - e)

\* -1, 0, 1 as x < y, x = y, x > y
FlCmp(x, y) ==
    IF x.m = << >> THEN (IF y.m = << >> THEN 0 ELSE -1)
    ELSE IF y.m = << >> THEN 1
    ELSE BCmp(Aligned(x, Min(x.e, y.e)), Aligned(y, Min(x.e, y.e)))

\* x + y
FlAdd(x, y) ==
    IF x.m = << >> THEN y
    ELSE IF y.m = << >> THEN x
    ELSE FlRound(BAdd(Aligned(x, Min(x.e, y.e)), Aligned(y, Min(x.e, y.e))),
                 Min(x.e, y.e))

\* |a - b|
BAbsDiff(a, b) == IF BCmp(a, b) >= 0 THEN BSub(a, b) ELSE BSub(b, a)

\* Math.abs(x - y)
FlAbsDiff(x, y) ==
    IF x.m = << >> THEN y
    ELSE IF y.m = << >> THEN x
    ELSE FlRound(BAbsDiff(Aligned(x, Min(x.e, y.e)), Aligned(y, Min(x.e, y.e))),
                 Min(x.e, y.e))

\* x - y for x >= y
FlSub(x, y) == FlAbsDiff(x, y)

\* x * n for an integer-valued 0 <= n < LimbBase
FlMulInt(x, n) == FlRound(BMulSmall(x.m, n), x.e)

\* bits of quotient computed beyond the significand before rounding
GuardBits == 15

\* 2 * quotient, plus 1 when the remainder is not zero
BDivSticky(qr) == BAdd(BShl(qr[1], 1), IF qr[2] = 0 THEN << >> ELSE <<1>>)

\* x / d for an integer-valued 0 < d < LimbBase: the quotient is taken to
\* more than Precision + 2 bits, the remainder kept as a sticky bit below it
FlDivInt(x, d) ==
    IF x.m = << >> THEN FlZero
    ELSE FlRound(BDivSticky(BDivSmall(BShl(x.m, GuardBits + IntLen(d)), d)),
                 x.e - GuardBits - IntLen(d) - 1)

\* the number the decimal literal n / scale parses to
FlDecimal(n, scale) == FlDivInt(FlFromInt(n), scale)

\* Math.round(x) for x >= 0: the nearest integer, halves upwards
MathRound(x) ==
    IF x.m = << >> \/ x.e >= 0 THEN x
    ELSE Norm(BAdd(BShr(x.m, 0 - x.e),
                   IF BOdd(BShr(x.m, 0 - x.e - 1)) THEN <<1>> ELSE << >>), 0)

(***************************************************************************)
(* The catalog store and the identities the operations are called with.    *)
(***************************************************************************)
NULL == "null"

\* largest quantity of one item in a request
MaxQty == 2

\* the order ids the ledger hands out
OrderIds == {"o1"}

UserIds == {"u1", "u2"}

VendorIds == {"v1", "v2", "v3", "v4", "v5"}

ProductIds == {"p1", "p2", "p3", "p4", "p5", "p6", "p7"}

\* vendors: select { id, status, vendorType }; v1 and v2 are approved, v3 is
\* awaiting approval, v4 was rejected and v5 suspended
Vendor ==
    [v \in VendorIds |->
        [status |-> CASE v = "v3" -> "PENDING"
                      [] v = "v4" -> "REJECTED"
                      [] v = "v5" -> "SUSPENDED"
                      [] OTHER -> "APPROVED",
         vendorType |-> IF v = "v1" THEN "PHARMACY" ELSE "MEDICAL_STORE"]]

\* products, prices in hundredths: p1 and p2 are sold by v1, p3 and p4 by v2,
\* p5 by v3, p6 by v4 and p7 by v5; p4 is not available
Product ==
    [p \in ProductIds |->
        CASE p = "p1" -> [vendorId |-> "v1", isAvailable |-> TRUE,
                          priceMin |-> 43, priceMax |-> 10000,
                          minOrderQuantity |-> 1]
          [] p = "p2" -> [vendorId |-> "v1", isAvailable |-> TRUE,
                          priceMin |-> 10000, priceMax |-> 10000,
                          minOrderQuantity |-> 2]
          [] p = "p3" -> [vendorId |-> "v2", isAvailable |-> TRUE,
                          priceMin |-> 43, priceMax |-> 43,
                          minOrderQuantity |-> 1]
          [] p = "p4" -> [vendorId |-> "v2", isAvailable |-> FALSE,
                          priceMin |-> 43, priceMax |-> 10000,
                          minOrderQuantity |-> 1]
          [] p = "p5" -> [vendorId |-> "v3", isAvailable |-> TRUE,
                          priceMin |-> 43, priceMax |-> 10000,
                          minOrderQuantity |-> 1]
          [] p = "p6" -> [vendorId |-> "v4", isAvailable |-> TRUE,
                          priceMin |-> 43, priceMax |-> 10000,
                          minOrderQuantity |-> 1]
          [] p = "p7" -> [vendorId |-> "v5", isAvailable |-> TRUE,
                          priceMin |-> 43, priceMax |-> 10000,
                          minOrderQuantity |-> 1]]

\* req.user: the authenticated principal, a customer or an approved vendor
Callers ==
    {[role |-> "CUSTOMER", userId |-> u, vendorId |-> NULL] : u \in UserIds}
    \cup {[role |-> "VENDOR", userId |-> v, vendorId |-> v] :
              v \in {w \in VendorIds : Vendor[w].status = "APPROVED"}}

\* unit prices a request may carry, in hundredths
UnitPrices == {43, 10000}

\* offsets, in thousandths, of the declared total from the decimal sum
Deltas == {-1000, 0, 5, 10}

Items == [productId : ProductIds, quantity : 1..MaxQty, unitPrice : UnitPrices]

ItemLists == {<<a>> : a \in Items} \cup {<<a, b>> : a, b \in Items}

RECURSIVE DecimalSum(_)
\* the decimal sum of quantity * unit price, in hundredths
DecimalSum(items) ==
    IF items = << >> THEN 0
    ELSE items[1].quantity * items[1].unitPrice + DecimalSum(Tail(items))

\* req.body of POST /orders; totalAmount in thousandths
Requests ==
    {[items |-> l, totalAmount |-> 10 * DecimalSum(l) + d,
      paymentMethod |-> m] :
        l \in ItemLists, d \in Deltas, m \in {NULL, "COD"}}

(***************************************************************************)
(* Business logic helpers.                                                 *)
(***************************************************************************)
COMMISSION_RATES == [LOCAL_MARKET |-> 10, DEFAULT |-> 16]

ORDER_STATUS_FLOW ==
    [DRAFT |-> {"PENDING", "CANCELLED"},
     PENDING |-> {"CONFIRMED", "CANCELLED"},
     CONFIRMED |-> {"COMPLETED", "CANCELLED"},
     CANCELLED |-> {},
     COMPLETED |-> {}]

CommissionAtPreferentialRate(amount, vendorType) ==
    FlDivInt(FlMulInt(amount, COMMISSION_RATES.LOCAL_MARKET), 100)

calculateCommission(amount, vendorType) ==
    LET rate == IF vendorType = "LOCAL_MARKET"
                THEN COMMISSION_RATES.LOCAL_MARKET
                ELSE COMMISSION_RATES.DEFAULT
    IN  FlDivInt(FlMulInt(amount, rate), 100)

calculateVendorAmount(totalAmount, commissionAmount) ==
    FlSub(totalAmount, commissionAmount)

isValidOrderStatusTransition(currentStatus, newStatus) ==
    newStatus \in ORDER_STATUS_FLOW[currentStatus]

(***************************************************************************)
(* createOrder: validation and totals, before the transaction.             *)
(***************************************************************************)
ProductsOfAnyAvailability(items) ==
    {p \in ProductIds : \E i \in 1..Len(items) : items[i].productId = p}

\* prisma.product.findMany({ where: { id: { in: productIds }, isAvailable: true } })
FoundProducts(items) ==
    {p \in ProductIds :
        Product[p].isAvailable /\ \E i \in 1..Len(items) : items[i].productId = p}

\* the same query when the products' isAvailable column reads available
ProductsFound(available, items) ==
    {p \in ProductIds :
        available[p] /\ \E i \in 1..Len(items) : items[i].productId = p}

\* the message the item loop returns for one item, or NULL
PriceOutOfRangeExclusive(unitPrice, product) ==
    \/ FlCmp(unitPrice, FlDecimal(product.priceMin, 100)) <= 0
    \/ FlCmp(unitPrice, FlDecimal(product.priceMax, 100)) >= 0

\* item.unitPrice < product.priceMin || item.unitPrice > product.priceMax
PriceOutOfRange(unitPrice, product) ==
    \/ FlCmp(unitPrice, FlDecimal(product.priceMin, 100)) < 0
    \/ FlCmp(unitPrice, FlDecimal(product.priceMax, 100)) > 0

ItemError(item) ==
    IF item.quantity < Product[item.productId].minOrderQuantity
    THEN "Minimum order quantity"
    ELSE IF PriceOutOfRange(FlDecimal(item.unitPrice, 100),
                            Product[item.productId])
    THEN "Invalid price"
    ELSE NULL

\* the row validatedItems.push adds for an item of the given unit price
ValidatedRow(item, unitPrice) ==
    [productId |-> item.productId,
     quantity |-> item.quantity,
     unitPrice |-> unitPrice,
     totalAmount |-> FlMulInt(unitPrice, item.quantity)]

\* validatedItems: one row per item
ValidatedItem(item) == ValidatedRow(item, FlDecimal(item.unitPrice, 100))

\* calculatedTotal after the first n items
RECURSIVE CalculatedTotal(_, _)
CalculatedTotal(items, n) ==
    IF n = 0 THEN FlZero
    ELSE FlAdd(CalculatedTotal(items, n - 1), ValidatedItem(items[n]).totalAmount)

TotalMismatchAboveOne(calculatedTotal, declared) ==
    FlCmp(FlAbsDiff(calculatedTotal, declared), FlFromInt(1)) > 0

\* Math.abs(calculatedTotal - orderData.totalAmount) > 0.01
TotalMismatch(calculatedTotal, declared) ==
    FlCmp(FlAbsDiff(calculatedTotal, declared), FlDecimal(1, 100)) > 0

NoVendorCheck(vendorIds) == FALSE

OnlySuspendedRefused(vendor) == vendor.status = "SUSPENDED"

\* vendor.status !== "APPROVED"
VendorNotApproved(vendor) == vendor.status # "APPROVED"

\* vendorIds.length > 1
MultipleVendors(vendorIds) == Cardinality(vendorIds) > 1

\* the rows the transaction is to write, once the commission is computed
ValidatedOrder(body, vendorId, calculatedTotal, commissionAmount) ==
    [code |-> 201, message |-> "Order placed successfully",
     vendorId |-> vendorId,
     totalAmount |-> calculatedTotal,
     commissionAmount |-> commissionAmount,
     vendorAmount |-> calculateVendorAmount(calculatedTotal, commissionAmount),
     items |-> [i \in 1..Len(body.items) |-> ValidatedItem(body.items[i])]]

\* the check of the declared total against calculatedTotal, and what follows
ValidateTotal(body, vendorId, calculatedTotal) ==
    IF TotalMismatch(calculatedTotal, FlDecimal(body.totalAmount, 1000))
    THEN [code |-> 400, message |-> "Total amount mismatch"]
    ELSE ValidatedOrder(body, vendorId, calculatedTotal,
                        calculateCommission(calculatedTotal,
                                            Vendor[vendorId].vendorType))

\* the item loop, given the message of each item (NULL: none), and what
\* follows
ValidateItems(body, vendorId, errors) ==
    IF \E i \in DOMAIN errors : errors[i] # NULL
    THEN [code |-> 400,
          message |-> errors[CHOOSE i \in DOMAIN errors :
                                 /\ errors[i] # NULL
                                 /\ \A j \in 1..(i - 1) : errors[j] = NULL]]
    ELSE ValidateTotal(body, vendorId,
                       CalculatedTotal(body.items, Len(body.items)))

\* the checks of the vendors of the products found, and what follows
ValidateVendor(body, vendorIds, vendorId) ==
    IF MultipleVendors(vendorIds)
    THEN [code |-> 400,
          message |-> "Cannot order from multiple vendors in one order"]
    ELSE IF VendorNotApproved(Vendor[vendorId])
    THEN [code |-> 400, message |-> "Vendor is not approved"]
    ELSE ValidateItems(body, vendorId,
                       [i \in 1..Len(body.items) |-> ItemError(body.items[i])])

\* the checks of the products found, and what follows
DistinctCountMismatch(products, items) ==
    Cardinality(products)
        # Cardinality({items[i].productId : i \in DOMAIN items})

\* products.length !== productIds.length, productIds one per item
ProductCountMismatch(products, items) == Cardinality(products) # Len(items)

ValidateProducts(body, products) ==
    IF ProductCountMismatch(products, body.items)
    THEN [code |-> 400, message |-> "Some products are not available"]
    ELSE ValidateVendor(body, {Product[p].vendorId : p \in products},
                        CHOOSE v \in {Product[p].vendorId : p \in products} :
                            TRUE)

\* the outcome of createOrder's checks for a customer's request: the error
\* response, or the rows the transaction is to write
Validate(body) == ValidateProducts(body, FoundProducts(body.items))

(***************************************************************************)
(* The tables bookings, pharmacy_bookings and payments, keyed by booking   *)
(* id, as one value db; every handler is a function of db, its arguments   *)
(* and the outcome of its I/O, to the db it leaves and what it answers.    *)
(***************************************************************************)
\* f with key k set to v
Put(f, k, v) == [x \in DOMAIN f \cup {k} |-> IF x = k THEN v ELSE f[x]]

\* a gateway call or a notification; amount FlZero: none
Effect(c, target, amount) == [call |-> c, target |-> target, amount |-> amount]

Answer(code, message) == [code |-> code, message |-> message]

\* what a controller leaves: the tables, the response and what it sent out
Reply(db, code, message, fx) ==
    [db |-> db, response |-> Answer(code, message), effects |-> fx]

\* what a service method leaves: the tables, the message of the error it
\* threw (NULL: it returned) and the gateway calls it made
Outcome(db, threw, fx) == [db |-> db, threw |-> threw, effects |-> fx]

TransactionWithoutRollback(before, written, throws) == written

\* prisma.$transaction(callback): the writes of a callback that throws are
\* rolled back
Transaction(before, written, throws) == IF throws THEN before ELSE written

\* createOrderSchema.safeParse(req.body).success
SchemaOk(body) ==
    /\ Len(body.items) >= 1
    /\ \A i \in 1..Len(body.items) :
          /\ body.items[i].quantity >= 1
          /\ body.items[i].unitPrice >= 1
    /\ body.totalAmount >= 10

\* the checks of every request, computed once (@@ tabulates the function)
Validated ==
    [body \in {b \in Requests : SchemaOk(b)} |-> Validate(body)] @@ << >>

\* Math.round(amount * 100): the amount the gateway is given, in paise
ToPaise(amount) == MathRound(FlMulInt(amount, 100))

\* sendNotification: the notification it delivers; it catches what its
\* delivery throws and returns
sendNotification(notification, fails) ==
    IF fails THEN << >> ELSE <<notification>>

\* sendOrderNotification: the notifications it delivers.  notifyFail: the
\* sendNotification call whose delivery fails, counted from 1 (0: none)
OrderNotification(type, orderId, userId, vendorId, amount, notifyFail) ==
    IF type = "ORDER_PLACED" /\ vendorId # NULL
    THEN sendNotification(Effect("notify:NEW_ORDER_VENDOR", vendorId, amount),
                          notifyFail = 1)
         \o sendNotification(Effect("notify:" \o type, userId, FlZero),
                             notifyFail = 2)
    ELSE sendNotification(Effect("notify:" \o type, userId, FlZero),
                          notifyFail = 1)

\* the rows createOrder's transaction inserts
NewBooking(user, v) ==
    [userId |-> user.userId,
     vendorId |-> v.vendorId,
     bookingType |-> "PHARMACY",
     totalAmount |-> v.totalAmount,
     commissionAmount |-> v.commissionAmount,
     status |-> "PENDING"]

NewPharmacyBookings(v) ==
    [i \in 1..Len(v.items) |->
        [productId |-> v.items[i].productId,
         quantity |-> v.items[i].quantity,
         unitPrice |-> v.items[i].unitPrice,
         totalAmount |-> v.items[i].totalAmount,
         status |-> "PENDING"]]

\* refundAmount FlZero: null
NewPayment(body, v) ==
    [vendorId |-> v.vendorId,
     totalAmount |-> v.totalAmount,
     commissionAmount |-> v.commissionAmount,
     vendorAmount |-> v.vendorAmount,
     paymentMethod |->
         IF body.paymentMethod = NULL THEN "RAZORPAY" ELSE body.paymentMethod,
     paymentStatus |-> "PENDING",
     razorpayOrderId |-> NULL,
     razorpayPaymentId |-> NULL,
     razorpaySignature |-> NULL,
     refundId |-> NULL,
     refundAmount |-> FlZero]

(***************************************************************************)
(* OrderController.createOrder, given the booking id the database will     *)
(* generate.  txFail: the insert of the transaction that fails (1 booking, *)
(* 2 pharmacy bookings, 3 payment; 0 none); gatewayOk: the gateway creates *)
(* the payment order and its id is stored; notifyFail: the notification    *)
(* whose delivery fails (0: none).                                         *)
(***************************************************************************)
\* what the transaction's callback has written when it ends or throws
CreateRows(db, id, user, body, v, txFail) ==
    LET b == [db EXCEPT !.booking = Put(@, id, NewBooking(user, v))]
        l == [b EXCEPT !.pharmacyBooking = Put(@, id, NewPharmacyBookings(v))]
        p == [l EXCEPT !.payment = Put(@, id, NewPayment(body, v))]
    IN  CASE txFail = 0 -> p
          [] txFail = 1 -> db
          [] txFail = 2 -> b
          [] txFail = 3 -> l

GatewayFatal(db, id, user, body, v, created, txFail, gatewayOk, notifyFail) ==
    IF txFail # 0
    THEN Reply(created, 500, "Failed to create order", << >>)
    ELSE IF ~gatewayOk
    THEN Reply(db, 500, "Failed to create order",
               <<Effect("razorpay.orders.create", id, v.totalAmount)>>)
    ELSE Reply(created, 201, "Order placed successfully",
               <<Effect("razorpay.orders.create", id, v.totalAmount)>>)

NotificationFatal(db, id, user, body, v, created, txFail, gatewayOk, notifyFail) ==
    IF txFail # 0 \/ notifyFail # 0
    THEN Reply(created, 500, "Failed to create order", << >>)
    ELSE Reply(created, 201, "Order placed successfully",
               OrderNotification("ORDER_PLACED", id, user.userId, v.vendorId,
                                 v.totalAmount, 0))

\* createOrder from the transaction on, for a request whose checks left v
CreateValidated(db, id, user, body, v, created, txFail, gatewayOk, notifyFail) ==
    IF txFail # 0
    THEN Reply(created, 500, "Failed to create order", << >>)
    ELSE Reply(IF body.paymentMethod \in {NULL, "RAZORPAY"} /\ gatewayOk
               THEN [created EXCEPT
                        !.payment[id].razorpayOrderId = "order_" \o id]
               ELSE created,
               201, "Order placed successfully",
               (IF body.paymentMethod \in {NULL, "RAZORPAY"}
                THEN <<Effect("razorpay.orders.create", id,
                              ToPaise(v.totalAmount))>>
                ELSE << >>)
               \o OrderNotification("ORDER_PLACED", id, user.userId,
                                    v.vendorId, v.totalAmount, notifyFail))

\* createOrder for a customer, given what the checks of the request left
CreateChecked(db, id, user, body, v, txFail, gatewayOk, notifyFail) ==
    IF v.code # 201
    THEN Reply(db, v.code, v.message, << >>)
    ELSE CreateValidated(db, id, user, body, v,
                         Transaction(db,
                                     CreateRows(db, id, user, body, v, txFail),
                                     txFail # 0),
                         txFail, gatewayOk, notifyFail)

createOrder(db, id, user, body, txFail, gatewayOk, notifyFail) ==
    IF user.role # "CUSTOMER"
    THEN Reply(db, 403, "Access forbidden", << >>)
    ELSE IF ~SchemaOk(body)
    THEN Reply(db, 400, "Validation error", << >>)
    ELSE CreateChecked(db, id, user, body, Validated[body], txFail, gatewayOk,
                       notifyFail)

(***************************************************************************)
(* OrderController.updateOrderStatus.  txFail: the write of the            *)
(* transaction that fails (1 booking, 2 pharmacy bookings; 0 none);        *)
(* notifyFail: the notification whose delivery fails (0: none).            *)
(***************************************************************************)
\* z.enum(["CONFIRMED", "CANCELLED", "COMPLETED"])
UpdateStatuses == {"CONFIRMED", "CANCELLED", "COMPLETED"}

BookingStatuses == {"DRAFT", "PENDING", "CONFIRMED", "CANCELLED", "COMPLETED"}

\* tx.booking.update({ where: { id }, data: { status } })
SetBookingStatus(db, id, status) == [db EXCEPT !.booking[id].status = status]

\* tx.pharmacyBooking.updateMany({ where: { bookingId: id }, data: { status } })
SetItemsStatus(db, id, status) ==
    [db EXCEPT !.pharmacyBooking[id] =
        [i \in DOMAIN @ |-> [@[i] EXCEPT !.status = status]]]

StatusRowsWithRefund(db, id, status, txFail) ==
    IF txFail = 0 /\ status = "CANCELLED" /\ id \in DOMAIN db.payment
    THEN [SetItemsStatus(SetBookingStatus(db, id, status), id, status)
             EXCEPT !.payment[id].paymentStatus =
                        IF @ = "SUCCESS" THEN "REFUNDED" ELSE @]
    ELSE db

\* what the status transaction's callback has written when it ends or throws
StatusRows(db, id, status, txFail) ==
    CASE txFail = 1 -> db
      [] txFail = 2 -> SetBookingStatus(db, id, status)
      [] OTHER -> SetItemsStatus(SetBookingStatus(db, id, status), id, status)

OrderOfAnyVendor(db, id, vendorId) == id \in DOMAIN db.booking

\* prisma.booking.findFirst({ where: { id, vendorId: user.vendorId } }) finds
\* the order
OrderOfVendor(db, id, vendorId) ==
    id \in DOMAIN db.booking /\ db.booking[id].vendorId = vendorId

OnlyCompletedIsFinal(order) == order.status = "COMPLETED"

\* order.status === "COMPLETED" || order.status === "CANCELLED"
CompletedOrCancelled(order) == order.status \in {"COMPLETED", "CANCELLED"}

\* updateOrderStatus from the transaction on, none of whose writes fails,
\* for an order read with customer userId
StatusUpdated(db, id, userId, status, notifyFail) ==
    Reply(Transaction(db, StatusRows(db, id, status, 0), FALSE),
          200, "Order status updated",
          OrderNotification(
              CASE status = "CONFIRMED" -> "ORDER_CONFIRMED"
                [] status = "COMPLETED" -> "ORDER_COMPLETED"
                [] OTHER -> "ORDER_CANCELLED",
              id, userId, NULL, FlZero, notifyFail))

updateOrderStatus(db, user, id, status, txFail, notifyFail) ==
    IF user.role # "VENDOR" \/ user.vendorId = NULL
    THEN Reply(db, 403, "Access forbidden", << >>)
    ELSE IF status \notin UpdateStatuses
    THEN Reply(db, 400, "Validation error", << >>)
    ELSE IF ~OrderOfVendor(db, id, user.vendorId)
    THEN Reply(db, 404, "Order not found", << >>)
    ELSE IF CompletedOrCancelled(db.booking[id])
    THEN Reply(db, 400, "Cannot update completed or cancelled orders", << >>)
    ELSE IF txFail \in {1, 2}
    THEN Reply(Transaction(db, StatusRows(db, id, status, txFail), TRUE),
               500, "Failed to update order status", << >>)
    ELSE StatusUpdated(db, id, db.booking[id].userId, status, notifyFail)

(***************************************************************************)
(* OrderController.getVendorOrders, first page.  status: the status query  *)
(* parameter, NULL when absent; fault: 1 when the query throws (0: not).   *)
(***************************************************************************)
\* where: { vendorId: user.vendorId, bookingType: "LOCAL_MARKET" }, and
\* where.status = status if a status is given
VendorOrdersWhere(order, vendorId, status) ==
    /\ order.vendorId = vendorId
    /\ order.bookingType = "LOCAL_MARKET"
    /\ status # NULL => order.status = status

\* the response and the ids of the orders it lists
getVendorOrders(db, user, status, fault) ==
    IF user.role # "VENDOR" \/ user.vendorId = NULL
    THEN [response |-> Answer(403, "Access forbidden"), orders |-> {}]
    ELSE IF fault = 1
    THEN [response |-> Answer(500, "Failed to retrieve orders"), orders |-> {}]
    ELSE [response |-> Answer(200, "Orders retrieved successfully"),
          orders |-> {id \in DOMAIN db.booking :
                         VendorOrdersWhere(db.booking[id], user.vendorId,
                                           status)}]

(***************************************************************************)
(* PaymentService.  dbFail, fault: the I/O step of the call that fails,    *)
(* counted from 1 in the order the method reaches them (0: none).          *)
(***************************************************************************)
\* PAYMENT.RAZORPAY_KEY_SECRET: the constructor throws without it
RAZORPAY_KEY_SECRET == "key_secret"

\* crypto.createHmac("sha256", secret).update(message).digest("hex")
Hmac(secret, message) == "hmac(" \o secret \o "," \o message \o ")"

AnySignatureVerifies(data) == TRUE

\* the body of verifyPaymentSignature under a key secret: without one it
\* throws, and the catch answers false
SignatureVerified(secret, data) ==
    IF secret = NULL THEN FALSE
    ELSE Hmac(secret,
              data.razorpay_order_id \o "|" \o data.razorpay_payment_id)
             = data.razorpay_signature

verifyPaymentSignature(data) == SignatureVerified(RAZORPAY_KEY_SECRET, data)

\* prisma.marketBooking.updateMany({ where: { bookingId }, data: { status } }):
\* the schema has no marketBooking model (the migration drops market_bookings
\* for pharmacy_bookings), so the call throws and writes no row
marketBookingUpdateMany(db, bookingId, status) ==
    Outcome(db, "prisma.marketBooking is undefined", << >>)

\* dbFail: 1 payment.update, 2 booking.update
processPaymentSuccess(db, bookingId, data, dbFail) ==
    LET paid == [db EXCEPT !.payment[bookingId] =
                    [@ EXCEPT !.paymentStatus = "SUCCESS",
                              !.razorpayPaymentId = data.razorpay_payment_id,
                              !.razorpaySignature = data.razorpay_signature]]
    IN  IF ~verifyPaymentSignature(data)
        THEN Outcome(db, "Invalid payment signature", << >>)
        ELSE IF bookingId \notin DOMAIN db.payment
        THEN Outcome(db, "Record to update not found", << >>)
        ELSE IF dbFail = 1
        THEN Outcome(db, "payment.update failed", << >>)
        ELSE IF dbFail = 2
        THEN Outcome(paid, "booking.update failed", << >>)
        ELSE marketBookingUpdateMany(
                 SetBookingStatus(paid, bookingId, "CONFIRMED"), bookingId,
                 "CONFIRMED")

\* dbFail: 1 payment.update, 2 booking.update
processPaymentFailure(db, bookingId, dbFail) ==
    LET failed == [db EXCEPT !.payment[bookingId].paymentStatus = "FAILED"]
    IN  IF bookingId \notin DOMAIN db.payment
        THEN Outcome(db, "Record to update not found", << >>)
        ELSE IF dbFail = 1
        THEN Outcome(db, "payment.update failed", << >>)
        ELSE IF dbFail = 2
        THEN Outcome(failed, "booking.update failed", << >>)
        ELSE marketBookingUpdateMany(
                 SetBookingStatus(failed, bookingId, "CANCELLED"), bookingId,
                 "CANCELLED")

RefundRecordedBeforeGateway(db, id, amount, fault) ==
    IF id \notin DOMAIN db.payment
    THEN Outcome(db, "Payment not found or invalid", << >>)
    ELSE Outcome([db EXCEPT !.payment[id].paymentStatus = "REFUNDED"],
                 IF fault = 0 THEN NULL ELSE "razorpay.payments.refund failed",
                 << >>)

\* what initiateRefund throws on the payment row it reads, NULL: nothing
RefundRefusal(db, id) ==
    IF id \notin DOMAIN db.payment THEN "Payment not found or invalid"
    ELSE IF db.payment[id].razorpayPaymentId = NULL
    THEN "Payment not found or invalid"
    ELSE IF db.payment[id].paymentStatus # "SUCCESS"
    THEN "Cannot refund non-successful payment"
    ELSE NULL

\* amount || payment.totalAmount; amount FlZero: none given
RefundAmount(row, amount) == IF amount # FlZero THEN amount ELSE row.totalAmount

\* this.razorpay.payments.refund(payment.razorpayPaymentId, { amount, ... })
RefundCall(row, refundAmount) ==
    Effect("razorpay.payments.refund", row.razorpayPaymentId,
           ToPaise(refundAmount))

\* prisma.payment.update({ where: { id }, data: REFUNDED, refundId, ... })
RefundRecorded(db, id, refundAmount) ==
    [db EXCEPT !.payment[id] =
        [@ EXCEPT !.paymentStatus = "REFUNDED",
                  !.refundId = "rfnd_" \o id,
                  !.refundAmount = refundAmount]]

\* the payment row is named by its booking's id.  fault: 1 the gateway's
\* refund, 2 the row's update
initiateRefund(db, id, amount, fault) ==
    LET refund == RefundCall(db.payment[id],
                             RefundAmount(db.payment[id], amount))
    IN  IF RefundRefusal(db, id) # NULL
        THEN Outcome(db, RefundRefusal(db, id), << >>)
        ELSE IF fault = 1
        THEN Outcome(db, "razorpay.payments.refund failed", <<refund>>)
        ELSE IF fault = 2
        THEN Outcome(db, "payment.update failed", <<refund>>)
        ELSE Outcome(RefundRecorded(db, id,
                                    RefundAmount(db.payment[id], amount)),
                     NULL, <<refund>>)

\* the events a webhook delivery may name
WebhookEvents ==
    {"payment.captured", "payment.failed", "refund.processed", "order.paid"}

\* the gateway's id of the payment of booking id
GatewayPaymentId(id) == "pay_" \o id

\* payload.payload.payment.entity with notes.orderId (NULL: no such note)
PaymentEntities ==
    {[id |-> GatewayPaymentId(o), order_id |-> "order_" \o o, orderId |-> n] :
        o \in OrderIds, n \in OrderIds \cup {NULL}}

\* payload.payload.refund.entity; id NULL: the payload has none
RefundEntities == {[id |-> "rfnd_" \o o] : o \in OrderIds}

\* webhook deliveries: every one carries a payment entity, a refund event a
\* refund entity as well
WebhookPayloads ==
    {[event |-> e, payment |-> p, refund |-> [id |-> NULL]] :
        e \in WebhookEvents \ {"refund.processed"}, p \in PaymentEntities}
    \cup {[event |-> "refund.processed", payment |-> p, refund |-> r] :
             p \in PaymentEntities, r \in RefundEntities}

\* JSON.stringify(payload)
Stringify(payload) ==
    payload.event \o ":" \o payload.payment.id \o ":"
    \o payload.payment.orderId \o ":" \o payload.refund.id

handlePaymentCaptured(db, paymentEntity, dbFail) ==
    LET orderId == paymentEntity.orderId
        done == processPaymentSuccess(db, orderId,
                    [razorpay_payment_id |-> paymentEntity.id,
                     razorpay_order_id |-> paymentEntity.order_id,
                     razorpay_signature |-> ""], dbFail)
    IN  IF orderId = NULL THEN Outcome(db, NULL, << >>)
        ELSE IF orderId \notin DOMAIN db.booking THEN Outcome(db, NULL, << >>)
        ELSE Outcome(done.db, NULL, done.effects)

handlePaymentFailed(db, paymentEntity, dbFail) ==
    LET orderId == paymentEntity.orderId
        done == processPaymentFailure(db, orderId, dbFail)
    IN  IF orderId = NULL THEN Outcome(db, NULL, << >>)
        ELSE IF orderId \notin DOMAIN db.booking THEN Outcome(db, NULL, << >>)
        ELSE Outcome(done.db, NULL, done.effects)

\* prisma.payment.updateMany({ where: { refundId }, data: REFUNDED });
\* dbFail: 1 the updateMany
handleRefundProcessed(db, refundEntity, dbFail) ==
    IF dbFail = 1 THEN Outcome(db, NULL, << >>)
    ELSE Outcome([db EXCEPT !.payment =
                     [b \in DOMAIN @ |->
                         IF @[b].refundId = refundEntity.id
                         THEN [@[b] EXCEPT !.paymentStatus = "REFUNDED"]
                         ELSE @[b]]],
                 NULL, << >>)

handleWebhookUnverified(db, secret, signature, payload, dbFail) ==
    CASE payload.event = "payment.captured" ->
             handlePaymentCaptured(db, payload.payment, dbFail)
      [] payload.event = "payment.failed" ->
             handlePaymentFailed(db, payload.payment, dbFail)
      [] payload.event = "refund.processed" ->
             handleRefundProcessed(db, payload.refund, dbFail)
      [] OTHER -> Outcome(db, NULL, << >>)

\* secret: PAYMENT.WEBHOOK_SECRET, NULL when not configured
handleWebhook(db, secret, signature, payload, dbFail) ==
    IF secret = NULL
    THEN Outcome(db, "Webhook secret is not configured", << >>)
    ELSE IF signature # Hmac(secret, Stringify(payload))
    THEN Outcome(db, "Invalid webhook signature", << >>)
    ELSE CASE payload.event = "payment.captured" ->
                  handlePaymentCaptured(db, payload.payment, dbFail)
           [] payload.event = "payment.failed" ->
                  handlePaymentFailed(db, payload.payment, dbFail)
           [] payload.event = "refund.processed" ->
                  handleRefundProcessed(db, payload.refund, dbFail)
           [] OTHER -> Outcome(db, NULL, << >>)

(***************************************************************************)
(* OrderController.cancelOrder.  fault: 1 and 2 the writes of the          *)
(* transaction, 3 and 4 the refund's gateway call and row update.          *)
(***************************************************************************)
NoRefundDue(db, id) == FALSE

NeverAlreadyCancelled(order) == FALSE

\* order.status === "CANCELLED"
AlreadyCancelled(order) == order.status = "CANCELLED"

\* order.payment && order.payment.paymentStatus === "SUCCESS"
RefundDue(db, id) ==
    id \in DOMAIN db.payment /\ db.payment[id].paymentStatus = "SUCCESS"

OrderOfAnyUser(db, id, userId) == id \in DOMAIN db.booking

\* prisma.booking.findFirst({ where: { id, userId: user.userId } }) finds the
\* order
OrderOfUser(db, id, userId) ==
    id \in DOMAIN db.booking /\ db.booking[id].userId = userId

cancelOrder(db, user, id, fault) ==
    LET order == db.booking[id]
        cancelled == Transaction(db, StatusRows(db, id, "CANCELLED", fault),
                                 fault \in {1, 2})
        refund == initiateRefund(cancelled, id, db.payment[id].totalAmount,
                                 IF fault >= 3 THEN fault - 2 ELSE 0)
    IN  IF user.role # "CUSTOMER"
        THEN Reply(db, 403, "Access forbidden", << >>)
        ELSE IF ~OrderOfUser(db, id, user.userId)
        THEN Reply(db, 404, "Order not found", << >>)
        ELSE IF order.status = "COMPLETED"
        THEN Reply(db, 400, "Cannot cancel completed orders", << >>)
        ELSE IF AlreadyCancelled(order)
        THEN Reply(db, 400, "Order is already cancelled", << >>)
        ELSE IF fault \in {1, 2}
        THEN Reply(cancelled, 500, "Failed to cancel order", << >>)
        ELSE IF RefundDue(db, id)
        THEN Reply(refund.db, 200, "Order cancelled successfully",
                   refund.effects)
        ELSE Reply(cancelled, 200, "Order cancelled successfully", << >>)

(***************************************************************************)
(* The state: the tables, and the last call with what it answered.         *)
(***************************************************************************)
\* PAYMENT.WEBHOOK_SECRET of the deployment, NULL when not configured
WebhookSecrets == {NULL, "whsec"}

VARIABLES
    booking,          \* bookings rows
    pharmacyBooking,  \* pharmacy_bookings rows of each booking, in item order
    payment,          \* payments row of each booking
    issued,           \* booking ids already generated for a createOrder call
    call,             \* the last call: operation, arguments, outcome of I/O
    response,         \* what the last call answered: status code and message
    effects,          \* gateway calls and notifications of the last call
    listed,           \* ids of the orders the last call listed
    env,              \* the deployment's configuration
    isAvailable,      \* the isAvailable column of the products
    inflight          \* the calls that run step by step: where each is and
                      \* what it has read

vars ==
    <<booking, pharmacyBooking, payment, issued, call, response, effects,
      listed, env, isAvailable, inflight>>

tables == <<booking, pharmacyBooking, payment>>

\* the calls that run step by step, side by side
Slots == {1, 2}

\* a call that has not been made yet
Idle == [op |-> "none", at |-> "idle"]

Init ==
    /\ booking = << >>
    /\ pharmacyBooking = << >>
    /\ payment = << >>
    /\ issued = {}
    /\ call = [op |-> "none"]
    /\ response = Answer(0, NULL)
    /\ effects = << >>
    /\ listed = {}
    /\ env \in [WEBHOOK_SECRET : WebhookSecrets]
    /\ isAvailable = [p \in ProductIds |-> Product[p].isAvailable]
    /\ inflight = [s \in Slots |-> Idle]

Db == [booking |-> booking, pharmacyBooking |-> pharmacyBooking,
       payment |-> payment]

\* call c answers reply
Answered(c, reply) ==
    /\ call' = c
    /\ response' = reply.response
    /\ effects' = reply.effects
    /\ booking' = reply.db.booking
    /\ pharmacyBooking' = reply.db.pharmacyBooking
    /\ payment' = reply.db.payment
    /\ listed' = {}
    /\ UNCHANGED env

\* the step of a call c that runs from start to end and leaves reply
Handle(c, reply) ==
    /\ Answered(c, reply)
    /\ UNCHANGED <<isAvailable, inflight>>

\* a service method answers 0 when it returns and -1, with the error's
\* message, when it throws
Returned(outcome) ==
    IF outcome.threw = NULL
    THEN Reply(outcome.db, 0, NULL, outcome.effects)
    ELSE Reply(outcome.db, -1, outcome.threw, outcome.effects)

\* the id the database generates for the next booking
NextId == CHOOSE i \in OrderIds : i \notin issued

CreateOrder(user, body, txFail, gatewayOk, notifyFail) ==
    /\ OrderIds \ issued # {}
    /\ LET id == NextId
       IN  /\ issued' = issued \cup {id}
           /\ Handle([op |-> "createOrder", user |-> user, body |-> body,
                      txFail |-> txFail, gatewayOk |-> gatewayOk,
                      notifyFail |-> notifyFail],
                     createOrder(Db, id, user, body, txFail, gatewayOk,
                                 notifyFail))

UpdateOrderStatus(user, id, status, txFail, notifyFail) ==
    /\ Handle([op |-> "updateOrderStatus", user |-> user, id |-> id,
               status |-> status, fault |-> txFail,
               notifyFail |-> notifyFail],
              updateOrderStatus(Db, user, id, status, txFail, notifyFail))
    /\ UNCHANGED issued

CancelOrder(user, id, fault) ==
    /\ Handle([op |-> "cancelOrder", user |-> user, id |-> id,
               fault |-> fault],
              cancelOrder(Db, user, id, fault))
    /\ UNCHANGED issued

ProcessPaymentSuccess(bookingId, data, dbFail) ==
    /\ Handle([op |-> "processPaymentSuccess", bookingId |-> bookingId,
               data |-> data, fault |-> dbFail],
              Returned(processPaymentSuccess(Db, bookingId, data, dbFail)))
    /\ UNCHANGED issued

ProcessPaymentFailure(bookingId, dbFail) ==
    /\ Handle([op |-> "processPaymentFailure", bookingId |-> bookingId,
               fault |-> dbFail],
              Returned(processPaymentFailure(Db, bookingId, dbFail)))
    /\ UNCHANGED issued

InitiateRefund(id, amount, fault) ==
    /\ Handle([op |-> "initiateRefund", paymentId |-> id, amount |-> amount,
               fault |-> fault],
              Returned(initiateRefund(Db, id, amount, fault)))
    /\ UNCHANGED issued

GetVendorOrders(user, status, fault) ==
    /\ call' = [op |-> "getVendorOrders", user |-> user, status |-> status,
                fault |-> fault]
    /\ response' = getVendorOrders(Db, user, status, fault).response
    /\ listed' = getVendorOrders(Db, user, status, fault).orders
    /\ effects' = << >>
    /\ UNCHANGED <<booking, pharmacyBooking, payment, issued, env,
                   isAvailable, inflight>>

HandleWebhook(signature, payload, dbFail) ==
    /\ Handle([op |-> "handleWebhook", signature |-> signature,
               payload |-> payload, fault |-> dbFail],
              Returned(handleWebhook(Db, env.WEBHOOK_SECRET, signature,
                                     payload, dbFail)))
    /\ UNCHANGED issued

(***************************************************************************)
(* The calls, with every argument and every outcome of their I/O.  A fault *)
(* is drawn only where the call reaches the step that fails: where it      *)
(* leaves something else than the call without fault.                      *)
(***************************************************************************)
\* the outcomes <<txFail, gatewayOk, notifyFail>> of the I/O of a
\* createOrder call: a call that is refused does none
CreateFaults(accepted) ==
    IF accepted
    THEN {f \in (0..3) \X BOOLEAN \X (0..2) :
             f[1] # 0 => f[2] /\ f[3] = 0}
    ELSE {<<0, TRUE, 0>>}

PlaceFrom(users, bodies) ==
    /\ OrderIds \ issued # {}
    /\ \E user \in users, body \in bodies :
          \E f \in CreateFaults(createOrder(Db, NextId, user, body, 0, TRUE,
                                            0).response.code = 201) :
              /\ \/ f = <<0, TRUE, 0>>
                 \/ createOrder(Db, NextId, user, body, f[1], f[2], f[3])
                        # createOrder(Db, NextId, user, body, 0, TRUE, 0)
              /\ CreateOrder(user, body, f[1], f[2], f[3])

\* createOrder on every request
Place == PlaceFrom(Callers, Requests)

\* the carts of the requests the order workflow is run on
SampleCarts ==
    {<<[productId |-> "p1", quantity |-> 1, unitPrice |-> 43]>>,
     <<[productId |-> "p1", quantity |-> 2, unitPrice |-> 43],
       [productId |-> "p2", quantity |-> 2, unitPrice |-> 10000]>>,
     <<[productId |-> "p1", quantity |-> 1, unitPrice |-> 43],
       [productId |-> "p3", quantity |-> 1, unitPrice |-> 43]>>}

SampleRequests ==
    {b \in Requests :
        /\ b.items \in SampleCarts
        /\ b.paymentMethod = NULL
        /\ b.totalAmount - 10 * DecimalSum(b.items) \in {0, -1000}}

\* who places the sampled requests: a customer and a vendor
SampleCallers == {c \in Callers : c.userId \in {"u1", "v1"}}

PlaceSample == PlaceFrom(SampleCallers, SampleRequests)

Update ==
    \E user \in Callers, id \in OrderIds, status \in BookingStatuses,
       txFail \in 0..2, notifyFail \in 0..1 :
        /\ \/ txFail = 0 /\ notifyFail = 0
           \/ /\ txFail # 0 => notifyFail = 0
              /\ updateOrderStatus(Db, user, id, status, txFail, notifyFail)
                     # updateOrderStatus(Db, user, id, status, 0, 0)
        /\ UpdateOrderStatus(user, id, status, txFail, notifyFail)

Cancel ==
    \E user \in Callers, id \in OrderIds, fault \in 0..4 :
        /\ \/ fault = 0
           \/ cancelOrder(Db, user, id, fault) # cancelOrder(Db, user, id, 0)
        /\ CancelOrder(user, id, fault)

\* the signatures a caller may present: the gateway's, none and a forged one
Signatures(data) ==
    {Hmac(RAZORPAY_KEY_SECRET,
          data.razorpay_order_id \o "|" \o data.razorpay_payment_id),
     "", "forged"}

\* the verification data of the gateway's payment of booking id
Verifications(id) ==
    LET data == [razorpay_order_id |-> "order_" \o id,
                 razorpay_payment_id |-> GatewayPaymentId(id),
                 razorpay_signature |-> ""]
    IN  {[data EXCEPT !.razorpay_signature = sig] : sig \in Signatures(data)}

PaymentSucceeded ==
    \E id \in OrderIds, dbFail \in 0..2 :
        \E data \in Verifications(id) :
            /\ \/ dbFail = 0
               \/ processPaymentSuccess(Db, id, data, dbFail)
                      # processPaymentSuccess(Db, id, data, 0)
            /\ ProcessPaymentSuccess(id, data, dbFail)

PaymentFailed ==
    \E id \in OrderIds, dbFail \in 0..2 :
        /\ \/ dbFail = 0
           \/ processPaymentFailure(Db, id, dbFail)
                  # processPaymentFailure(Db, id, 0)
        /\ ProcessPaymentFailure(id, dbFail)

Refund ==
    \E id \in OrderIds, fault \in 0..2 :
        \E amount \in {FlZero}
                      \cup {payment[i].totalAmount : i \in DOMAIN payment} :
            /\ \/ fault = 0
               \/ initiateRefund(Db, id, amount, fault)
                      # initiateRefund(Db, id, amount, 0)
            /\ InitiateRefund(id, amount, fault)

Webhook ==
    \E payload \in WebhookPayloads, dbFail \in 0..2 :
        \E signature \in {"forged", Hmac("whsec", Stringify(payload))} :
            /\ \/ dbFail = 0
               \/ handleWebhook(Db, env.WEBHOOK_SECRET, signature, payload,
                                dbFail)
                      # handleWebhook(Db, env.WEBHOOK_SECRET, signature,
                                      payload, 0)
            /\ HandleWebhook(signature, payload, dbFail)

\* the listing of a vendor and of a customer, without a status filter and
\* with one
VendorOrders ==
    \E user \in SampleCallers \cup {c \in Callers : c.role = "VENDOR"},
       status \in {NULL, "PENDING"}, fault \in 0..1 :
        /\ fault = 1 => user.role = "VENDOR"
        /\ GetVendorOrders(user, status, fault)

\* createOrder alone, on every request
SpecCreate == Init /\ [][Place]_vars

Next ==
    \/ PlaceSample
    \/ Update
    \/ Cancel
    \/ PaymentSucceeded
    \/ PaymentFailed
    \/ Refund
    \/ Webhook
    \/ VendorOrders

Spec == Init /\ [][Next]_vars

(***************************************************************************)
(* The calls step by step.  A handler awaits each query, so the calls of   *)
(* two requests interleave between a read and the write that follows it;   *)
(* a transaction is one step.  Each slot runs one call, none of whose I/O  *)
(* fails; inflight[s] keeps what the call has read.                        *)
(***************************************************************************)
\* slot s goes on as r
Moved(s, r) == inflight' = [inflight EXCEPT ![s] = r]

\* a step that answers nothing yet
Silent == UNCHANGED <<call, response, effects, listed, env>>

\* a step that writes no row
NoWrite == UNCHANGED <<booking, pharmacyBooking, payment>>

\* a call on order id that has read the order and, with it, its payment
StatusCall(op, at, user, id, status) ==
    [op |-> op, at |-> at, user |-> user, id |-> id, status |-> status,
     userId |-> booking[id].userId,
     refundDue |-> RefundDue(Db, id),
     amount |-> IF id \in DOMAIN payment THEN payment[id].totalAmount
                ELSE FlZero,
     gatewayId |-> NULL,
     refunds |-> << >>]

\* updateOrderStatus up to its checks: findFirst and the terminal check
UpdateRead(s, user, id, status) ==
    /\ inflight[s] = Idle
    /\ IF updateOrderStatus(Db, user, id, status, 0, 0).response.code # 200
       THEN /\ Answered([op |-> "updateOrderStatus", user |-> user,
                         id |-> id, status |-> status, fault |-> 0,
                         notifyFail |-> 0],
                        updateOrderStatus(Db, user, id, status, 0, 0))
            /\ Moved(s, [op |-> "updateOrderStatus", at |-> "refused"])
       ELSE /\ Moved(s, StatusCall("updateOrderStatus", "checked", user, id,
                                   status))
            /\ Silent
            /\ NoWrite
    /\ UNCHANGED <<issued, isAvailable>>

\* updateOrderStatus from its transaction on
UpdateWrite(s) ==
    /\ inflight[s].op = "updateOrderStatus"
    /\ inflight[s].at = "checked"
    /\ Answered([op |-> "updateOrderStatus", user |-> inflight[s].user,
                 id |-> inflight[s].id, status |-> inflight[s].status,
                 fault |-> 0, notifyFail |-> 0],
                StatusUpdated(Db, inflight[s].id, inflight[s].userId,
                              inflight[s].status, 0))
    /\ Moved(s, [inflight[s] EXCEPT !.at = "done"])
    /\ UNCHANGED <<issued, isAvailable>>

\* cancelOrder up to its checks: findFirst with the payment, and the checks
\* of the status read
CancelRead(s, user, id) ==
    /\ inflight[s] = Idle
    /\ IF cancelOrder(Db, user, id, 0).response.code # 200
       THEN /\ Answered([op |-> "cancelOrder", user |-> user, id |-> id,
                         fault |-> 0],
                        cancelOrder(Db, user, id, 0))
            /\ Moved(s, [op |-> "cancelOrder", at |-> "refused"])
       ELSE /\ Moved(s, StatusCall("cancelOrder", "checked", user, id,
                                   "CANCELLED"))
            /\ Silent
            /\ NoWrite
    /\ UNCHANGED <<issued, isAvailable>>

\* the call of slot s, when it answers
CancelCall(s) ==
    [op |-> "cancelOrder", user |-> inflight[s].user, id |-> inflight[s].id,
     fault |-> 0]

\* what cancelOrder answers once the order is cancelled
Cancelled(db, fx) == Reply(db, 200, "Order cancelled successfully", fx)

\* cancelOrder's transaction; the call answers unless the payment it read
\* was SUCCESS
CancelWrite(s) ==
    /\ inflight[s].op = "cancelOrder"
    /\ inflight[s].at = "checked"
    /\ IF inflight[s].refundDue
       THEN /\ booking' = SetBookingStatus(Db, inflight[s].id,
                                           "CANCELLED").booking
            /\ pharmacyBooking' = SetItemsStatus(Db, inflight[s].id,
                                                 "CANCELLED").pharmacyBooking
            /\ UNCHANGED payment
            /\ Silent
            /\ Moved(s, [inflight[s] EXCEPT !.at = "cancelled"])
       ELSE /\ Answered(CancelCall(s),
                        Cancelled(Transaction(Db,
                                              StatusRows(Db, inflight[s].id,
                                                         "CANCELLED", 0),
                                              FALSE),
                                  << >>))
            /\ Moved(s, [inflight[s] EXCEPT !.at = "done"])
    /\ UNCHANGED <<issued, isAvailable>>

\* initiateRefund's findUnique and checks; what it throws cancelOrder
\* catches and logs
RefundRead(s) ==
    /\ inflight[s].op = "cancelOrder"
    /\ inflight[s].at = "cancelled"
    /\ IF RefundRefusal(Db, inflight[s].id) # NULL
       THEN /\ Answered(CancelCall(s), Cancelled(Db, << >>))
            /\ Moved(s, [inflight[s] EXCEPT !.at = "done"])
       ELSE /\ Moved(s, [inflight[s] EXCEPT
                            !.at = "refunding",
                            !.gatewayId =
                                payment[inflight[s].id].razorpayPaymentId])
            /\ Silent
            /\ NoWrite
    /\ UNCHANGED <<issued, isAvailable>>

\* initiateRefund's call of the gateway, for the payment it read
RefundGateway(s) ==
    /\ inflight[s].op = "cancelOrder"
    /\ inflight[s].at = "refunding"
    /\ Moved(s, [inflight[s] EXCEPT
                    !.at = "refunded",
                    !.refunds =
                        <<RefundCall([razorpayPaymentId |->
                                          inflight[s].gatewayId],
                                     inflight[s].amount)>>])
    /\ Silent
    /\ NoWrite
    /\ UNCHANGED <<issued, isAvailable>>

\* initiateRefund's update of the payment; cancelOrder answers
RefundRecord(s) ==
    /\ inflight[s].op = "cancelOrder"
    /\ inflight[s].at = "refunded"
    /\ Answered(CancelCall(s),
                Cancelled(RefundRecorded(Db, inflight[s].id,
                                         inflight[s].amount),
                          inflight[s].refunds))
    /\ Moved(s, [inflight[s] EXCEPT !.at = "done"])
    /\ UNCHANGED <<issued, isAvailable>>

\* createOrder up to its transaction, on the products as they read now:
\* the error response, or the rows the transaction is to write
Checked(available, user, body) ==
    IF user.role # "CUSTOMER"
    THEN [code |-> 403, message |-> "Access forbidden"]
    ELSE IF ~SchemaOk(body)
    THEN [code |-> 400, message |-> "Validation error"]
    ELSE ValidateProducts(body, ProductsFound(available, body.items))

CreateCall(user, body) ==
    [op |-> "createOrder", user |-> user, body |-> body, txFail |-> 0,
     gatewayOk |-> TRUE, notifyFail |-> 0]

\* createOrder's checks left v
CreateReadAs(s, user, body, v) ==
    /\ inflight[s] = Idle
    /\ IF v.code # 201
       THEN /\ Answered(CreateCall(user, body),
                        Reply(Db, v.code, v.message, << >>))
            /\ Moved(s, [op |-> "createOrder", at |-> "refused"])
       ELSE /\ Moved(s, [op |-> "createOrder", at |-> "validated",
                         user |-> user, body |-> body, v |-> v])
            /\ Silent
            /\ NoWrite
    /\ UNCHANGED <<issued, isAvailable>>

CreateRead(s, user, body) ==
    CreateReadAs(s, user, body, Checked(isAvailable, user, body))

\* createOrder from its transaction on
CreateWrite(s) ==
    /\ inflight[s].op = "createOrder"
    /\ inflight[s].at = "validated"
    /\ OrderIds \ issued # {}
    /\ issued' = issued \cup {NextId}
    /\ Answered(CreateCall(inflight[s].user, inflight[s].body),
                CreateChecked(Db, NextId, inflight[s].user, inflight[s].body,
                              inflight[s].v, 0, TRUE, 0))
    /\ Moved(s, [op |-> "createOrder", at |-> "done"])
    /\ UNCHANGED isAvailable

\* createOrder from start to end, on the products as they read now
CreateNow(user, body) ==
    /\ OrderIds \ issued # {}
    /\ issued' = issued \cup {NextId}
    /\ Handle(CreateCall(user, body),
              CreateChecked(Db, NextId, user, body,
                            Checked(isAvailable, user, body), 0, TRUE, 0))

(***************************************************************************)
(* ProductController: the calls that switch a product off.                 *)
(***************************************************************************)
\* prisma.product.findFirst({ where: { id, pharmacyProfile: { vendorId } } })
\* finds the product
ProductOfVendor(p, user) == Product[p].vendorId = user.vendorId

\* prisma.pharmacyBooking.count({ where: { productId, status: { in:
\* ["PENDING", "CONFIRMED"] } } })
ActiveOrders(db, p) ==
    Cardinality(UNION {{<<id, i>> :
                           i \in {j \in DOMAIN db.pharmacyBooking[id] :
                                     /\ db.pharmacyBooking[id][j].productId = p
                                     /\ db.pharmacyBooking[id][j].status
                                            \in {"PENDING", "CONFIRMED"}}} :
                       id \in DOMAIN db.pharmacyBooking})

\* the answer and the isAvailable column the call leaves
toggleProductAvailability(available, user, p) ==
    IF user.role # "VENDOR"
    THEN [response |-> Answer(403, "Access forbidden"),
          isAvailable |-> available]
    ELSE IF ~ProductOfVendor(p, user)
    THEN [response |-> Answer(404, "Product not found"),
          isAvailable |-> available]
    ELSE [response |-> Answer(200, IF available[p]
                                   THEN "Product disabled successfully"
                                   ELSE "Product enabled successfully"),
          isAvailable |-> [available EXCEPT ![p] = ~@]]

deleteProduct(db, available, user, p) ==
    IF user.role # "VENDOR"
    THEN [response |-> Answer(403, "Access forbidden"),
          isAvailable |-> available]
    ELSE IF ~ProductOfVendor(p, user)
    THEN [response |-> Answer(404, "Product not found"),
          isAvailable |-> available]
    ELSE IF ActiveOrders(db, p) > 0
    THEN [response |-> Answer(400, "Cannot delete product with active orders"),
          isAvailable |-> available]
    ELSE [response |-> Answer(200, "Product deleted successfully"),
          isAvailable |-> [available EXCEPT ![p] = FALSE]]

\* a call of the product controller that leaves reply
ProductCall(c, reply) ==
    /\ call' = c
    /\ response' = reply.response
    /\ isAvailable' = reply.isAvailable
    /\ effects' = << >>
    /\ listed' = {}
    /\ UNCHANGED <<booking, pharmacyBooking, payment, issued, env, inflight>>

ToggleProductAvailability(user, p) ==
    ProductCall([op |-> "toggleProductAvailability", user |-> user, id |-> p],
                toggleProductAvailability(isAvailable, user, p))

DeleteProduct(user, p) ==
    ProductCall([op |-> "deleteProduct", user |-> user, id |-> p],
                deleteProduct(Db, isAvailable, user, p))

(***************************************************************************)
(* The specification of the calls step by step: an order is placed and     *)
(* paid, and two calls run side by side.                                   *)
(***************************************************************************)
\* the request the calls are run on: one unit of p1 at its price
StepRequests ==
    {b \in SampleRequests :
        Len(b.items) = 1 /\ b.totalAmount = 10 * DecimalSum(b.items)}

\* the products the product calls name
StepProducts == {"p1", "p3"}

PlaceNow == \E user \in SampleCallers, body \in StepRequests :
                CreateNow(user, body)

\* the gateway's payment of an order is confirmed with its signature
Paid ==
    \E id \in OrderIds :
        \E data \in Verifications(id) :
            /\ verifyPaymentSignature(data)
            /\ ProcessPaymentSuccess(id, data, 0)

StepUpdate ==
    \E s \in Slots :
        \/ \E user \in SampleCallers, id \in OrderIds,
              status \in UpdateStatuses : UpdateRead(s, user, id, status)
        \/ UpdateWrite(s)

StepCancel ==
    \E s \in Slots :
        \/ \E user \in SampleCallers, id \in OrderIds : CancelRead(s, user, id)
        \/ CancelWrite(s)
        \/ RefundRead(s)
        \/ RefundGateway(s)
        \/ RefundRecord(s)

StepCreate ==
    \E s \in Slots :
        \/ \E user \in SampleCallers, body \in StepRequests :
               CreateRead(s, user, body)
        \/ CreateWrite(s)

SwitchProduct ==
    \E user \in SampleCallers, p \in StepProducts :
        \/ ToggleProductAvailability(user, p)
        \/ DeleteProduct(user, p)

NextSteps ==
    \/ PlaceNow
    \/ Paid
    \/ StepUpdate
    \/ StepCancel
    \/ StepCreate
    \/ SwitchProduct

SpecSteps == Init /\ [][NextSteps]_vars

(***************************************************************************)
(* The properties of the order workflow.                                   *)
(***************************************************************************)
\* C1: an updateOrderStatus call by the vendor that owns a non-terminal
\* order, asking for a status that is not an edge of the transition table
\* from the order's status, is rejected and leaves the order and its lines
\* as they were
C1_UpdateFollowsTransitionTable ==
    [][\A id \in DOMAIN booking :
          (/\ call'.op = "updateOrderStatus"
           /\ call'.id = id
           /\ call'.user.role = "VENDOR"
           /\ call'.user.vendorId = booking[id].vendorId
           /\ booking[id].status \notin {"COMPLETED", "CANCELLED"}
           /\ call'.status \notin ORDER_STATUS_FLOW[booking[id].status])
          => /\ response'.code # 200
             /\ booking'[id] = booking[id]
             /\ pharmacyBooking'[id] = pharmacyBooking[id]]_vars

\* C2: an order whose status is COMPLETED or CANCELLED keeps that status in
\* every step, whatever the call
C2_TerminalStatusIsFinal ==
    [][\A id \in DOMAIN booking :
          booking[id].status \in {"COMPLETED", "CANCELLED"}
          => booking'[id].status = booking[id].status]_vars

\* C3: in every state every line of an order has the order's status
C3_LinesShareOrderStatus ==
    \A id \in DOMAIN booking :
        \A i \in DOMAIN pharmacyBooking[id] :
            pharmacyBooking[id][i].status = booking[id].status

\* C4: a handleWebhook call with the valid signature and a payment.captured
\* event for an existing PENDING order, none of whose writes fails, leaves
\* the payment SUCCESS and the order and every line CONFIRMED
C4_CapturedWebhookConfirms ==
    [][(/\ call'.op = "handleWebhook"
        /\ call'.fault = 0
        /\ env.WEBHOOK_SECRET # NULL
        /\ call'.signature
               = Hmac(env.WEBHOOK_SECRET, Stringify(call'.payload))
        /\ call'.payload.event = "payment.captured"
        /\ call'.payload.payment.orderId \in DOMAIN booking
        /\ booking[call'.payload.payment.orderId].status = "PENDING")
       => LET id == call'.payload.payment.orderId
          IN  /\ payment'[id].paymentStatus = "SUCCESS"
              /\ booking'[id].status = "CONFIRMED"
              /\ \A i \in DOMAIN pharmacyBooking'[id] :
                    pharmacyBooking'[id][i].status = "CONFIRMED"]_vars

\* C5: a handleWebhook call with the valid signature and a payment.failed
\* event for a PENDING order, none of whose writes fails, leaves the payment
\* FAILED and the order and every line CANCELLED
C5_FailedWebhookCancels ==
    [][(/\ call'.op = "handleWebhook"
        /\ call'.fault = 0
        /\ env.WEBHOOK_SECRET # NULL
        /\ call'.signature
               = Hmac(env.WEBHOOK_SECRET, Stringify(call'.payload))
        /\ call'.payload.event = "payment.failed"
        /\ call'.payload.payment.orderId \in DOMAIN booking
        /\ booking[call'.payload.payment.orderId].status = "PENDING")
       => LET id == call'.payload.payment.orderId
          IN  /\ payment'[id].paymentStatus = "FAILED"
              /\ booking'[id].status = "CANCELLED"
              /\ \A i \in DOMAIN pharmacyBooking'[id] :
                    pharmacyBooking'[id][i].status = "CANCELLED"]_vars

\* C6: a handleWebhook call whose signature is not the HMAC of the payload
\* under the webhook secret, or made when no secret is configured, throws
\* and changes no row, whatever the event
C6_BadWebhookSignatureRejected ==
    [][(/\ call'.op = "handleWebhook"
        /\ \/ env.WEBHOOK_SECRET = NULL
           \/ call'.signature
                  # Hmac(env.WEBHOOK_SECRET, Stringify(call'.payload)))
       => /\ response'.code = -1
          /\ response'.message \in {"Webhook secret is not configured",
                                    "Invalid webhook signature"}
          /\ effects' = << >>
          /\ UNCHANGED tables]_vars

\* a forged payment.failed delivery for a PENDING order was rejected
C6_Witness ==
    /\ call.op = "handleWebhook"
    /\ env.WEBHOOK_SECRET # NULL
    /\ call.signature = "forged"
    /\ call.payload.event = "payment.failed"
    /\ call.payload.payment.orderId \in DOMAIN booking
    /\ booking[call.payload.payment.orderId].status = "PENDING"
    /\ response.code = -1

\* C7: a createOrder call either answers 201 and adds one order PENDING with
\* at least one line, all PENDING, and one payment PENDING, or adds no row;
\* every order has a payment and at least one line
C7_CreateOrderAllOrNothing ==
    [][/\ call'.op = "createOrder"
          => \/ /\ response'.code = 201
                /\ \E id \in OrderIds \ DOMAIN booking :
                      /\ DOMAIN booking' = DOMAIN booking \cup {id}
                      /\ booking'[id].status = "PENDING"
                      /\ \A i \in DOMAIN pharmacyBooking'[id] :
                            pharmacyBooking'[id][i].status = "PENDING"
                      /\ payment'[id].paymentStatus = "PENDING"
             \/ /\ response'.code # 201
                /\ UNCHANGED tables
       /\ DOMAIN payment' = DOMAIN booking'
       /\ DOMAIN pharmacyBooking' = DOMAIN booking'
       /\ \A id \in DOMAIN booking' : Len(pharmacyBooking'[id]) >= 1]_vars

\* the payment insert of a valid request failed and no row was left
C7_Witness ==
    /\ call.op = "createOrder"
    /\ call.txFail = 3
    /\ response.code = 500
    /\ DOMAIN booking = {}
    /\ DOMAIN pharmacyBooking = {}

\* the sum of the totals of the first n lines, added as createOrder adds them
RECURSIVE LinesTotal(_, _)
LinesTotal(rows, n) ==
    IF n = 0 THEN FlZero ELSE FlAdd(LinesTotal(rows, n - 1), rows[n].totalAmount)

\* C8: in every state, for every order: the totals of its lines sum to the
\* order's totalAmount; the order's commissionAmount plus its payment's
\* vendorAmount is the order's totalAmount; the payment's totalAmount and
\* commissionAmount are the order's
C8_MoneyAddsUp ==
    \A id \in DOMAIN booking :
        /\ LinesTotal(pharmacyBooking[id], Len(pharmacyBooking[id]))
               = booking[id].totalAmount
        /\ FlAdd(booking[id].commissionAmount, payment[id].vendorAmount)
               = booking[id].totalAmount
        /\ payment[id].totalAmount = booking[id].totalAmount
        /\ payment[id].commissionAmount = booking[id].commissionAmount

\* C9: a createOrder call of a customer whose request passes the schema and
\* whose items are distinct available products of one approved vendor, each
\* within its minimum quantity and price range, answers "Total amount
\* mismatch" when the decimal sum of quantity * unit price differs from the
\* declared total by more than 0.01; no createOrder call whose sum differs so
\* adds a row; the order a call creates has the computed sum as totalAmount,
\* within 0.01 of the declared total
C9_TotalMismatchRejected ==
    [][call'.op = "createOrder" =>
          LET body == call'.body
              items == body.items
              ids == {items[i].productId : i \in DOMAIN items}
              far == \/ 10 * DecimalSum(items) - body.totalAmount > 10
                     \/ body.totalAmount - 10 * DecimalSum(items) > 10
              eligible ==
                  /\ call'.user.role = "CUSTOMER"
                  /\ SchemaOk(body)
                  /\ Cardinality(ids) = Len(items)
                  /\ \A p \in ids : Product[p].isAvailable
                  /\ Cardinality({Product[p].vendorId : p \in ids}) = 1
                  /\ \A p \in ids :
                        Vendor[Product[p].vendorId].status = "APPROVED"
                  /\ \A i \in DOMAIN items :
                        LET product == Product[items[i].productId]
                        IN  /\ items[i].quantity >= product.minOrderQuantity
                            /\ items[i].unitPrice >= product.priceMin
                            /\ items[i].unitPrice <= product.priceMax
          IN  /\ far => response'.code # 201 /\ UNCHANGED tables
              /\ far /\ eligible
                     => response' = Answer(400, "Total amount mismatch")
              /\ response'.code = 201
                     => /\ ~far
                        /\ \E id \in DOMAIN booking' \ DOMAIN booking :
                              booking'[id].totalAmount
                                  = CalculatedTotal(items, Len(items))]_vars

\* a request whose declared total is 1.00 below the sum was rejected for it
C9_Witness ==
    /\ call.op = "createOrder"
    /\ call.body.totalAmount - 10 * DecimalSum(call.body.items) = -1000
    /\ response = Answer(400, "Total amount mismatch")
    /\ DOMAIN booking = {}

\* C10: a createOrder call of a customer whose request passes the schema and
\* whose items are distinct available products of two or more vendors
\* answers the multi-vendor error; no createOrder call whose items name
\* products of two or more vendors adds a row; every line of every order is
\* a product of the order's vendor
C10_SingleVendorOrders ==
    [][/\ call'.op = "createOrder" =>
             LET body == call'.body
                 items == body.items
                 ids == {items[i].productId : i \in DOMAIN items}
                 several == Cardinality({Product[p].vendorId : p \in ids}) > 1
                 resolved ==
                     /\ call'.user.role = "CUSTOMER"
                     /\ SchemaOk(body)
                     /\ Cardinality(ids) = Len(items)
                     /\ \A p \in ids : Product[p].isAvailable
             IN  /\ several => response'.code # 201 /\ UNCHANGED tables
                 /\ several /\ resolved
                        => response' =
                               Answer(400,
                                   "Cannot order from multiple vendors in one order")
       /\ \A id \in DOMAIN booking' :
             \A i \in DOMAIN pharmacyBooking'[id] :
                 Product[pharmacyBooking'[id][i].productId].vendorId
                     = booking'[id].vendorId]_vars

\* a cart of products of two vendors was rejected and nothing was written
C10_Witness ==
    /\ call.op = "createOrder"
    /\ Len(call.body.items) = 2
    /\ Product[call.body.items[1].productId].vendorId
           # Product[call.body.items[2].productId].vendorId
    /\ response = Answer(400, "Cannot order from multiple vendors in one order")
    /\ DOMAIN booking = {}


\* C11: no createOrder call whose items name a product of a vendor that is
\* not APPROVED creates an order or writes a row; a customer's call that
\* passes the schema, with distinct available products of one vendor that is
\* not APPROVED, answers "Vendor is not approved"; every order is of an
\* APPROVED vendor
C11_UnapprovedVendorRefused ==
    [][/\ call'.op = "createOrder" =>
             LET body == call'.body
                 items == body.items
                 ids == {items[i].productId : i \in DOMAIN items}
                 sellers == {Product[p].vendorId : p \in ids}
                 unapproved ==
                     \E v \in sellers : Vendor[v].status # "APPROVED"
                 resolved ==
                     /\ call'.user.role = "CUSTOMER"
                     /\ SchemaOk(body)
                     /\ Cardinality(ids) = Len(items)
                     /\ \A p \in ids : Product[p].isAvailable
                     /\ Cardinality(sellers) = 1
             IN  /\ unapproved => response'.code # 201 /\ UNCHANGED tables
                 /\ unapproved /\ resolved
                        => response' = Answer(400, "Vendor is not approved")
       /\ \A id \in DOMAIN booking' :
             Vendor[booking'[id].vendorId].status = "APPROVED"]_vars

\* an order of a product of the vendor awaiting approval was refused and
\* nothing was written
C11_Witness ==
    /\ call.op = "createOrder"
    /\ Len(call.body.items) = 1
    /\ Vendor[Product[call.body.items[1].productId].vendorId].status = "PENDING"
    /\ response = Answer(400, "Vendor is not approved")
    /\ DOMAIN booking = {}
    /\ DOMAIN pharmacyBooking = {}
    /\ DOMAIN payment = {}


\* C12: no createOrder call with an item whose quantity is below its
\* product's minOrderQuantity, or whose unit price is below priceMin or above
\* priceMax, creates an order or writes a row; a customer's call reaching
\* the item loop with such an item answers 400 with the item's message; a
\* call whose items are all within their bounds, the bounds included, and
\* whose declared total is the sum, is accepted; the lines of a created
\* order are the items of the request, one for one
C12_InvalidItemFailsOrder ==
    [][call'.op = "createOrder" =>
          LET body == call'.body
              items == body.items
              ids == {items[i].productId : i \in DOMAIN items}
              sellers == {Product[p].vendorId : p \in ids}
              invalid ==
                  {i \in DOMAIN items :
                      LET product == Product[items[i].productId]
                      IN  \/ items[i].quantity < product.minOrderQuantity
                          \/ items[i].unitPrice < product.priceMin
                          \/ items[i].unitPrice > product.priceMax}
              reached ==
                  /\ call'.user.role = "CUSTOMER"
                  /\ SchemaOk(body)
                  /\ Cardinality(ids) = Len(items)
                  /\ \A p \in ids : Product[p].isAvailable
                  /\ Cardinality(sellers) = 1
                  /\ \A v \in sellers : Vendor[v].status = "APPROVED"
          IN  /\ invalid # {} => response'.code # 201 /\ UNCHANGED tables
              /\ invalid # {} /\ reached
                     => /\ response'.code = 400
                        /\ response'.message
                               \in {"Minimum order quantity", "Invalid price"}
              /\ /\ invalid = {}
                 /\ reached
                 /\ body.totalAmount = 10 * DecimalSum(items)
                 /\ call'.txFail = 0
                 => response'.code = 201
              /\ response'.code = 201
                     => \E id \in DOMAIN booking' \ DOMAIN booking :
                            /\ Len(pharmacyBooking'[id]) = Len(items)
                            /\ \A i \in DOMAIN items :
                                  /\ pharmacyBooking'[id][i].productId
                                         = items[i].productId
                                  /\ pharmacyBooking'[id][i].quantity
                                         = items[i].quantity]_vars

\* a cart whose first item is valid and whose second is below its
\* product's minimum quantity was refused whole
C12_Witness ==
    /\ call.op = "createOrder"
    /\ Len(call.body.items) = 2
    /\ call.body.items[1] = [productId |-> "p1", quantity |-> 1, unitPrice |-> 43]
    /\ call.body.items[2].productId = "p2"
    /\ call.body.items[2].quantity < Product["p2"].minOrderQuantity
    /\ call.body.items[2].unitPrice = Product["p2"].priceMin
    /\ response = Answer(400, "Minimum order quantity")
    /\ DOMAIN booking = {}
    /\ DOMAIN pharmacyBooking = {}
    /\ DOMAIN payment = {}


\* C13: no createOrder call with an item whose product is not an available
\* product of the catalog creates an order or writes a row; a customer's
\* call that passes the schema with such an item answers "Some products are
\* not available"; every line of every order is an available product
C13_UnresolvedProductFailsOrder ==
    [][/\ call'.op = "createOrder" =>
             LET body == call'.body
                 items == body.items
                 unresolved ==
                     \E i \in DOMAIN items :
                         ~Product[items[i].productId].isAvailable
             IN  /\ unresolved => response'.code # 201 /\ UNCHANGED tables
                 /\ unresolved /\ call'.user.role = "CUSTOMER" /\ SchemaOk(body)
                        => response' =
                               Answer(400, "Some products are not available")
       /\ \A id \in DOMAIN booking' :
             \A i \in DOMAIN pharmacyBooking'[id] :
                 Product[pharmacyBooking'[id][i].productId].isAvailable]_vars

\* a cart of an available and an unavailable product of one vendor was
\* refused whole
C13_Witness ==
    /\ call.op = "createOrder"
    /\ Len(call.body.items) = 2
    /\ Product[call.body.items[1].productId].isAvailable
    /\ ~Product[call.body.items[2].productId].isAvailable
    /\ Product[call.body.items[1].productId].vendorId
           = Product[call.body.items[2].productId].vendorId
    /\ response = Answer(400, "Some products are not available")
    /\ DOMAIN booking = {}
    /\ DOMAIN pharmacyBooking = {}
    /\ DOMAIN payment = {}


\* C14: the order a createOrder call creates is PENDING, its commissionAmount
\* is (totalAmount * rate) / 100 in JavaScript arithmetic, rate 16 for the
\* vendor types of the catalog (10 is the rate of LOCAL_MARKET), its
\* payment carries the same commission and totalAmount - commissionAmount as
\* vendorAmount; an order of 200 has commission 32 and vendor amount 168
C14_CommissionByVendorType ==
    [][call'.op = "createOrder" /\ response'.code = 201 =>
          \E id \in DOMAIN booking' \ DOMAIN booking :
              LET total == booking'[id].totalAmount
                  type == Vendor[booking'[id].vendorId].vendorType
                  rate == IF type = "LOCAL_MARKET" THEN 10 ELSE 16
              IN  /\ booking'[id].status = "PENDING"
                  /\ payment'[id].paymentStatus = "PENDING"
                  /\ type # "LOCAL_MARKET"
                  /\ booking'[id].commissionAmount
                         = FlDivInt(FlMulInt(total, rate), 100)
                  /\ payment'[id].commissionAmount
                         = booking'[id].commissionAmount
                  /\ payment'[id].vendorAmount
                         = FlSub(total, booking'[id].commissionAmount)
                  /\ calculateCommission(total, "LOCAL_MARKET")
                         = FlDivInt(FlMulInt(total, 10), 100)
                  /\ total = FlFromInt(200)
                         => /\ booking'[id].commissionAmount = FlFromInt(32)
                            /\ payment'[id].vendorAmount = FlFromInt(168)
                            /\ calculateCommission(total, "LOCAL_MARKET")
                                   = FlFromInt(20)]_vars

\* an order of 200 was created with commission 32 and vendor amount 168
C14_Witness ==
    /\ call.op = "createOrder"
    /\ response.code = 201
    /\ \E id \in DOMAIN booking :
          /\ booking[id].totalAmount = FlFromInt(200)
          /\ booking[id].commissionAmount = FlFromInt(32)
          /\ booking[id].status = "PENDING"
          /\ payment[id].vendorAmount = FlFromInt(168)


\* C15: a createOrder call that called the gateway for a payment order and
\* whose gateway step failed answers 201 "Order placed successfully"; the
\* order, its lines and its payment are stored, all PENDING, the payment
\* without a gateway order id; the customer and the vendor are notified
\* (when the delivery of the notifications does not fail itself)
C15_GatewayFailureKeepsOrder ==
    [][/\ call'.op = "createOrder"
       /\ ~call'.gatewayOk
       /\ call'.notifyFail = 0
       /\ \E i \in DOMAIN effects' :
             effects'[i].call = "razorpay.orders.create"
       => /\ response' = Answer(201, "Order placed successfully")
          /\ \E id \in DOMAIN booking' \ DOMAIN booking :
                /\ booking'[id].status = "PENDING"
                /\ booking'[id].userId = call'.user.userId
                /\ Len(pharmacyBooking'[id]) = Len(call'.body.items)
                /\ \A i \in DOMAIN pharmacyBooking'[id] :
                      pharmacyBooking'[id][i].status = "PENDING"
                /\ payment'[id].paymentStatus = "PENDING"
                /\ payment'[id].razorpayOrderId = NULL
                /\ \E i \in DOMAIN effects' :
                      /\ effects'[i].call = "notify:ORDER_PLACED"
                      /\ effects'[i].target = call'.user.userId
                /\ \E i \in DOMAIN effects' :
                      /\ effects'[i].call = "notify:NEW_ORDER_VENDOR"
                      /\ effects'[i].target = booking'[id].vendorId]_vars

\* the gateway failed for an order that is stored without a gateway order id
C15_Witness ==
    /\ call.op = "createOrder"
    /\ ~call.gatewayOk
    /\ call.notifyFail = 0
    /\ response = Answer(201, "Order placed successfully")
    /\ \E id \in DOMAIN booking :
          /\ booking[id].status = "PENDING"
          /\ payment[id].paymentStatus = "PENDING"
          /\ payment[id].razorpayOrderId = NULL
    /\ \E i \in DOMAIN effects : effects[i].call = "razorpay.orders.create"
    /\ \E i \in DOMAIN effects : effects[i].call = "notify:ORDER_PLACED"


\* C16: a createOrder call one of whose notifications failed answers 201 and
\* leaves the rows and the response of the same call with every
\* notification delivered; an updateOrderStatus call whose notification
\* failed answers 200 "Order status updated" with the order and its lines
\* in the requested status; in both only the failed notification is missing
C16_NotificationFailureContained ==
    [][/\ call'.op = "createOrder" /\ call'.notifyFail # 0
          => LET same == createOrder(Db, NextId, call'.user, call'.body,
                                     call'.txFail, call'.gatewayOk, 0)
             IN  /\ response' = Answer(201, "Order placed successfully")
                 /\ response' = same.response
                 /\ booking' = same.db.booking
                 /\ pharmacyBooking' = same.db.pharmacyBooking
                 /\ payment' = same.db.payment
                 /\ DOMAIN booking' # DOMAIN booking
                 /\ Len(effects') = Len(same.effects) - 1
       /\ call'.op = "updateOrderStatus" /\ call'.notifyFail # 0
          => /\ response' = Answer(200, "Order status updated")
             /\ booking'[call'.id].status = call'.status
             /\ \A i \in DOMAIN pharmacyBooking'[call'.id] :
                   pharmacyBooking'[call'.id][i].status = call'.status
             /\ payment' = payment
             /\ effects' = << >>]_vars

\* a status update whose notification failed answered 200 and is stored
C16_Witness ==
    /\ call.op = "updateOrderStatus"
    /\ call.notifyFail = 1
    /\ call.status = "CONFIRMED"
    /\ response = Answer(200, "Order status updated")
    /\ booking[call.id].status = "CONFIRMED"
    /\ effects = << >>


\* the gateway refund calls among the effects fx
RefundCalls(fx) ==
    {i \in DOMAIN fx : fx[i].call = "razorpay.payments.refund"}

\* C17: a cancelOrder call that answers 200 on an order whose payment was
\* SUCCESS makes exactly one gateway refund call, for the gateway payment of
\* that order and the payment's totalAmount (in paise); on an order whose
\* payment was not SUCCESS it makes none
C17_CancelRefundsPaidOrderOnce ==
    [][call'.op = "cancelOrder" /\ response'.code = 200 =>
          IF payment[call'.id].paymentStatus = "SUCCESS"
          THEN /\ Cardinality(RefundCalls(effects')) = 1
               /\ \A i \in RefundCalls(effects') :
                     /\ effects'[i].target = payment[call'.id].razorpayPaymentId
                     /\ FlDivInt(effects'[i].amount, 100)
                            = payment[call'.id].totalAmount
          ELSE RefundCalls(effects') = {}]_vars

\* a paid order was cancelled and its payment refunded by one gateway call
C17_Witness ==
    /\ call.op = "cancelOrder"
    /\ response = Answer(200, "Order cancelled successfully")
    /\ booking[call.id].status = "CANCELLED"
    /\ payment[call.id].paymentStatus = "REFUNDED"
    /\ payment[call.id].refundAmount = payment[call.id].totalAmount
    /\ Cardinality(RefundCalls(effects)) = 1


\* C18: a cancelOrder call on an order that is CANCELLED fails, changes no
\* row and makes no gateway call, whoever calls and however often (the
\* order is as CANCELLED after the call as before it); the customer who
\* owns the order is answered 400 "Order is already cancelled" every time
C18_CancelOfCancelledIsRefused ==
    [][/\ call'.op = "cancelOrder"
       /\ call'.id \in DOMAIN booking
       /\ booking[call'.id].status = "CANCELLED"
       => /\ response'.code # 200
          /\ UNCHANGED tables
          /\ effects' = << >>
          /\ /\ call'.user.role = "CUSTOMER"
             /\ call'.user.userId = booking[call'.id].userId
             => response' = Answer(400, "Order is already cancelled")]_vars

\* the owner's cancelOrder on a CANCELLED order whose payment is SUCCESS was
\* refused without a refund
C18_Witness ==
    /\ call.op = "cancelOrder"
    /\ response = Answer(400, "Order is already cancelled")
    /\ booking[call.id].status = "CANCELLED"
    /\ payment[call.id].paymentStatus = "SUCCESS"
    /\ effects = << >>


\* C19: a cancelOrder call whose refund failed, at the gateway or at the
\* update of the payment row, answers 200 "Order cancelled successfully",
\* leaves the order and its lines CANCELLED and the payment as it was; an
\* initiateRefund call that throws, for whatever reason, changes no row
C19_FailedRefundKeepsCancellation ==
    [][/\ call'.op = "cancelOrder" /\ call'.fault \in {3, 4}
          => /\ response' = Answer(200, "Order cancelled successfully")
             /\ booking'[call'.id].status = "CANCELLED"
             /\ \A i \in DOMAIN pharmacyBooking'[call'.id] :
                   pharmacyBooking'[call'.id][i].status = "CANCELLED"
             /\ booking[call'.id].status # "CANCELLED"
             /\ payment' = payment
       /\ call'.op = "initiateRefund" /\ response'.code = -1
          => UNCHANGED tables]_vars

\* the gateway refused the refund of a cancelled order: the order is
\* CANCELLED, its payment still SUCCESS
C19_Witness ==
    /\ call.op = "cancelOrder"
    /\ call.fault = 3
    /\ response = Answer(200, "Order cancelled successfully")
    /\ booking[call.id].status = "CANCELLED"
    /\ \A i \in DOMAIN pharmacyBooking[call.id] :
          pharmacyBooking[call.id][i].status = "CANCELLED"
    /\ payment[call.id].paymentStatus = "SUCCESS"
    /\ Cardinality(RefundCalls(effects)) = 1


\* C20: an updateOrderStatus call to CONFIRMED on a PENDING order, made by
\* the vendor of the order, answers 200 and leaves the order and its lines
\* CONFIRMED unless a write of its transaction fails; made by another
\* vendor or by a caller who is not a vendor, it is refused (404, 403) and
\* changes no row
C20_OnlyOwningVendorConfirms ==
    [][/\ call'.op = "updateOrderStatus"
       /\ call'.status = "CONFIRMED"
       /\ call'.id \in DOMAIN booking
       /\ booking[call'.id].status = "PENDING"
       => IF /\ call'.user.role = "VENDOR"
             /\ call'.user.vendorId = booking[call'.id].vendorId
          THEN call'.fault = 0
                  => /\ response' = Answer(200, "Order status updated")
                     /\ booking'[call'.id].status = "CONFIRMED"
                     /\ \A i \in DOMAIN pharmacyBooking'[call'.id] :
                           pharmacyBooking'[call'.id][i].status = "CONFIRMED"
          ELSE /\ response' =
                      IF call'.user.role = "VENDOR"
                      THEN Answer(404, "Order not found")
                      ELSE Answer(403, "Access forbidden")
               /\ UNCHANGED tables]_vars

\* a vendor who does not own a PENDING order asked to confirm it and was
\* refused
C20_Witness ==
    /\ call.op = "updateOrderStatus"
    /\ call.status = "CONFIRMED"
    /\ call.user.role = "VENDOR"
    /\ call.id \in DOMAIN booking
    /\ call.user.vendorId # booking[call.id].vendorId
    /\ response = Answer(404, "Order not found")
    /\ booking[call.id].status = "PENDING"


\* C21: an updateOrderStatus call on an order whose status is COMPLETED or
\* CANCELLED fails, whoever calls and whatever status is asked for, and
\* leaves the order and its lines as they were
C21_UpdateOfFinalOrderFails ==
    [][/\ call'.op = "updateOrderStatus"
       /\ call'.id \in DOMAIN booking
       /\ booking[call'.id].status \in {"COMPLETED", "CANCELLED"}
       => /\ response'.code \in {400, 403, 404}
          /\ booking' = booking
          /\ pharmacyBooking' = pharmacyBooking]_vars

\* the vendor of a CANCELLED order asked to confirm it and was refused
C21_Witness ==
    /\ call.op = "updateOrderStatus"
    /\ call.status = "CONFIRMED"
    /\ call.id \in DOMAIN booking
    /\ call.user.role = "VENDOR"
    /\ call.user.vendorId = booking[call.id].vendorId
    /\ booking[call.id].status = "CANCELLED"
    /\ response = Answer(400, "Cannot update completed or cancelled orders")


\* C22: a cancelOrder call made by the customer who owns an order that is
\* neither COMPLETED nor CANCELLED either leaves the order and all its lines
\* CANCELLED (200) or, when a write of its transaction fails, leaves them as
\* they were (500); made by anyone else, or on a COMPLETED or CANCELLED
\* order, it is refused, changes no row and asks for no refund
C22_CancelOnlyByOwnerOfOpenOrder ==
    [][/\ call'.op = "cancelOrder"
       /\ call'.id \in DOMAIN booking
       => IF /\ call'.user.role = "CUSTOMER"
             /\ call'.user.userId = booking[call'.id].userId
             /\ booking[call'.id].status \notin {"COMPLETED", "CANCELLED"}
          THEN \/ /\ response' = Answer(200, "Order cancelled successfully")
                  /\ booking'[call'.id].status = "CANCELLED"
                  /\ \A i \in DOMAIN pharmacyBooking'[call'.id] :
                        pharmacyBooking'[call'.id][i].status = "CANCELLED"
               \/ /\ response' = Answer(500, "Failed to cancel order")
                  /\ call'.fault \in {1, 2}
                  /\ UNCHANGED tables
                  /\ effects' = << >>
          ELSE /\ response'.code \in {400, 403, 404}
               /\ UNCHANGED tables
               /\ effects' = << >>]_vars

\* the customer who owns an order of two lines cancelled it
C22_Witness ==
    /\ call.op = "cancelOrder"
    /\ call.id \in DOMAIN booking
    /\ call.user.userId = booking[call.id].userId
    /\ response = Answer(200, "Order cancelled successfully")
    /\ booking[call.id].status = "CANCELLED"
    /\ Len(pharmacyBooking[call.id]) = 2
    /\ \A i \in DOMAIN pharmacyBooking[call.id] :
          pharmacyBooking[call.id][i].status = "CANCELLED"


\* C24: a processPaymentSuccess call whose signature is not the keyed digest
\* of orderId|paymentId throws and changes no row; verification without a
\* key secret answers "not verified" for every signature; and a step that
\* turns a payment to SUCCESS is a processPaymentSuccess call whose
\* signature is the digest
C24_PaymentSuccessFailsClosed ==
    [][/\ call'.op = "processPaymentSuccess"
          => /\ \A data \in Verifications(call'.bookingId) :
                   ~SignatureVerified(NULL, data)
             /\ call'.data.razorpay_signature
                    # Hmac(RAZORPAY_KEY_SECRET,
                           call'.data.razorpay_order_id \o "|"
                           \o call'.data.razorpay_payment_id)
                => /\ response' = Answer(-1, "Invalid payment signature")
                   /\ UNCHANGED tables
       /\ \A id \in DOMAIN payment :
             /\ payment[id].paymentStatus # "SUCCESS"
             /\ payment'[id].paymentStatus = "SUCCESS"
             => /\ call'.op = "processPaymentSuccess"
                /\ call'.data.razorpay_signature
                       = Hmac(RAZORPAY_KEY_SECRET,
                              call'.data.razorpay_order_id \o "|"
                              \o call'.data.razorpay_payment_id)]_vars

\* a forged signature was presented for the payment of an order and refused
C24_Witness ==
    /\ call.op = "processPaymentSuccess"
    /\ call.bookingId \in DOMAIN payment
    /\ call.data.razorpay_signature = "forged"
    /\ response = Answer(-1, "Invalid payment signature")
    /\ payment[call.bookingId].paymentStatus = "PENDING"


\* C28: no step moves a payment backwards: a SUCCESS payment does not become
\* FAILED or PENDING, and a REFUNDED payment does not become SUCCESS or
\* FAILED
C28_PaymentStatusNeverMovesBack ==
    [][\A id \in DOMAIN payment :
          /\ payment[id].paymentStatus = "SUCCESS"
             => payment'[id].paymentStatus \notin {"FAILED", "PENDING"}
          /\ payment[id].paymentStatus = "REFUNDED"
             => payment'[id].paymentStatus \notin {"SUCCESS", "FAILED"}]_vars


\* C29: an updateOrderStatus call leaves every payment row as it was and
\* asks the gateway for no refund, a cancellation by the order's vendor of
\* an order whose payment is SUCCESS included; of the controller's calls
\* only a customer's cancelOrder asks for one
C29_VendorCancelNeverRefunds ==
    [][/\ call'.op = "updateOrderStatus"
          => /\ payment' = payment
             /\ RefundCalls(effects') = {}
       /\ RefundCalls(effects') # {}
          => \/ call'.op = "cancelOrder" /\ call'.user.role = "CUSTOMER"
             \/ call'.op = "initiateRefund"]_vars

\* the vendor of an order whose payment is SUCCESS cancelled it
C29_Witness ==
    /\ call.op = "updateOrderStatus"
    /\ call.status = "CANCELLED"
    /\ call.id \in DOMAIN booking
    /\ call.user.vendorId = booking[call.id].vendorId
    /\ response = Answer(200, "Order status updated")
    /\ booking[call.id].status = "CANCELLED"
    /\ payment[call.id].paymentStatus = "SUCCESS"


\* C30: a createOrder call whose items name one product twice creates no
\* order and writes no row; made by a customer with a body the schema
\* accepts, it answers 400 "Some products are not available"
C30_DuplicateProductRejected ==
    [][/\ call'.op = "createOrder"
       /\ \E i, j \in DOMAIN call'.body.items :
             i # j /\ call'.body.items[i].productId
                         = call'.body.items[j].productId
       => /\ response'.code # 201
          /\ UNCHANGED tables
          /\ call'.user.role = "CUSTOMER" /\ SchemaOk(call'.body)
                => response' = Answer(400, "Some products are not available")
      ]_vars

\* a customer asked twice for an available product at its price, with the
\* right total, and was refused
C30_Witness ==
    /\ call.op = "createOrder"
    /\ call.user.role = "CUSTOMER"
    /\ Len(call.body.items) = 2
    /\ call.body.items[1] = call.body.items[2]
    /\ call.body.items[1].productId = "p1"
    /\ call.body.items[1].unitPrice = 43
    /\ call.body.totalAmount = 10 * DecimalSum(call.body.items)
    /\ response = Answer(400, "Some products are not available")
    /\ DOMAIN booking = {}


\* C26: a getVendorOrders call of a vendor, without a status filter and
\* whose query succeeds, lists every order of that vendor
C26_VendorListingShowsCreatedOrders ==
    [][/\ call'.op = "getVendorOrders"
       /\ call'.user.role = "VENDOR"
       /\ call'.status = NULL
       /\ call'.fault = 0
       => \A id \in DOMAIN booking :
              booking[id].vendorId = call'.user.vendorId => id \in listed']_vars


\* C23: when two status calls on one order run side by side, the write of
\* a call (updateOrderStatus's or cancelOrder's transaction) never changes
\* the status of an order that is COMPLETED or CANCELLED by then: the check
\* holds of the status committed when the call writes
C23_WritesRespectCommittedStatus ==
    [][\A s \in Slots :
          /\ inflight[s].op \in {"updateOrderStatus", "cancelOrder"}
          /\ inflight[s].at = "checked"
          /\ inflight'[s].at # "checked"
          /\ booking[inflight[s].id].status \in {"COMPLETED", "CANCELLED"}
          => booking'[inflight[s].id].status
                 = booking[inflight[s].id].status]_vars

\* C25: a step that commits a new order commits none of whose products is
\* switched off at that time
C25_NoOrderOfUnavailableProduct ==
    [][\A id \in DOMAIN booking' \ DOMAIN booking :
          \A i \in DOMAIN pharmacyBooking'[id] :
              isAvailable'[pharmacyBooking'[id][i].productId]]_vars

\* C27: of the cancelOrder calls that run side by side on one order, at
\* most one has asked the gateway for a refund of its payment
C27_AtMostOneRefund ==
    \A s, t \in Slots :
        /\ inflight[s].op = "cancelOrder"
        /\ inflight[t].op = "cancelOrder"
        /\ inflight[s].at \in {"refunded", "done"}
        /\ inflight[t].at \in {"refunded", "done"}
        /\ inflight[s].refunds # << >>
        /\ inflight[t].refunds # << >>
        /\ inflight[s].id = inflight[t].id
        => s = t

=============================================================================
